---- MODULE Spec2Model ----
(***************************************************************************)
(* A model of the voice-turn pipeline of the Merith Discord bot:           *)
(*   src/src/llm_client.py     LMStudioClient.generate_response_async      *)
(*   src/src/voice_handler.py  AudioSink, VoiceHandler                     *)
(*   src/src/discord_client.py MerithBot.join_voice / leave_voice          *)
(*                                                                         *)
(* The module holds its state machines over disjoint groups of variables;  *)
(* each specification runs one of them and keeps the others at rest:       *)
(*   SpecLLM       the retry loop of generate_response_async               *)
(*   SpecEndpoint  record_audio_from_channel inside full_voice_loop, with  *)
(*                 time counted in ticks of one poll interval (100 ms)     *)
(*   Spec          full_voice_loop and process_voice_message of one room,  *)
(*                 one action per stretch of code between two awaits       *)
(*   SpecMgr       join_voice / leave_voice over the rooms, with the       *)
(*                 tasks they create and cancel                            *)
(*   SpecRooms     the sessions of two rooms side by side                  *)
(*   SpecPlay      the wait for the end of a playback, timed               *)
(*   SpecEndpointStall  SpecEndpoint with sleeps that may overrun          *)
(*   SpecSink      AudioSink.write on the receiver thread beside the end   *)
(*                 of record_audio_from_channel, statement by statement    *)
(*   SpecTts       TTSEngine.synthesize (src/src/tts_kyutai.py) and its    *)
(*                 temporary files                                         *)
(*   SpecMsg       MerithBot.on_message, the text-chat handler             *)
(***************************************************************************)
EXTENDS Integers, Sequences, FiniteSets, TLC

VARIABLES
    \* ---- LMStudioClient.generate_response_async (SpecLLM)
    retry_attempts,   \* self.retry_attempts (llm_client.py:33)
    attempt,          \* the loop variable of "for attempt in range(...)"
    llm_pc,           \* "entry" | "loop" | "post" | "delay" | "returned" |
                      \* "raised" | "rest"
    requests,         \* number of session.post calls made by this call
    llm_trace,        \* the requests and retry delays of this call, in order
    llm_outcomes,     \* the outcome of each request of this call, in order
    llm_return,       \* "pending" | "reply" | "unavailable" | "TypeError"
    max_tokens,       \* the argument max_tokens: None or a number
    self_max_tokens,  \* self.max_tokens (llm_client.py:31): None or a number
    voice_mode,       \* the argument voice_mode
    tokens,           \* the local tokens
    sent_tokens,      \* the "max_tokens" of the requests posted by this call
    \* ---- record_audio_from_channel in full_voice_loop, timed (SpecEndpoint)
    silence_timeout,  \* self.silence_timeout, in ticks (voice_handler.py:104)
    ep_pc,            \* "call" | "poll" | "idle" | "turn" | "stopped"
    ep_sleep,         \* ticks left of the asyncio.sleep the task is in
    wait,             \* time.time() - start_wait, in ticks
    local_age,        \* time.time() - last_packet_time (the local), in ticks
    sink_age,         \* time.time() - sink.last_packet_time, in ticks
    has_audio,        \* sink.audio_data holds buffered audio
    heard,            \* the last packet came while the session was listening
    ep_eval,          \* the last evaluation of the while condition (line 205)
    ep_out,           \* the last return of record_audio_from_channel
    \* ---- full_voice_loop and process_voice_message of one room (Spec)
    connected,        \* guild_id in self.voice_clients
    vc_open,          \* the voice client the task holds is connected
    receiving,        \* voice_client.listen(sink) is in effect
    log_channel,      \* a log channel is configured (log_channel is not None)
    pc,               \* where the task of full_voice_loop is suspended
    ppc,              \* where process_voice_message is suspended ("none": not running)
    cancel_req,       \* task.cancel() was called and is not yet delivered
    cancel_at,        \* the stage the task was in when leave_voice cancelled it
    leave_pc,         \* where leave_voice is: "none" | "disconnect" | "done"
    orphan_synth,     \* a synthesize call runs in the executor, its awaiter gone
    rel,              \* the releases started so far, in order
    exit_how,         \* how the task ended: "none" | "loop" | "cancelled" | "error"
    silent,           \* time.time() - sink.last_packet_time >= duration
    audio_data,       \* sink.audio_data: the speakers in insertion order, with their bytes
    turn,             \* audio_result of the current iteration
    turn_seq,         \* parity of the number of Turns extracted so far
    user_message,     \* the text the recognizer returned for the Turn
    p_turn,           \* the Turn process_voice_message is working on, if any
    response,         \* the reply of the language model
    audio_path,       \* the file the synthesizer returned (0: none)
    playing,          \* voice_client.is_playing()
    play_path,        \* the file the player's after callback will delete
    files,            \* the temporary audio files that exist
    next_path,        \* the next fresh temporary file name
    trace,            \* what the current iteration has done so far, in order
    \* ---- join_voice and leave_voice over the rooms (SpecMgr)
    voice_loops,      \* self.voice_loops: room -> task (0: no entry)
    voice_clients,    \* the rooms self.voice_clients holds a client for
    vc_live,          \* the rooms whose client in self.voice_clients is connected
    vc_gen,           \* room -> which of the room's clients the dict holds, the
                      \* clients of a room numbered as they are connected
    tasks,            \* the tasks of full_voice_loop created so far
    cmds,             \* the command handlers issued so far
    \* ---- the sessions of several rooms side by side (SpecRooms)
    r_stage,          \* room -> where the room's task is
    r_sink,           \* sink -> the rooms whose packets its buffers hold
    r_silent,         \* sink -> its last packet is a silence timeout old
    r_turn,           \* room -> the rooms whose packets the room's Turn holds
    r_loops,          \* room -> self.voice_loops holds a task for the room
    r_clients,        \* room -> the state of the room's entry of self.voice_clients
    r_cancel,         \* room -> the room's task was cancelled and has not run since
    actor,            \* the room whose session, speaker or command took the last step
    \* ---- the wait for the end of a playback, timed (SpecPlay)
    waited,           \* waited, in polls of 100 ms
    vc_playing,       \* voice_client.is_playing()
    wait_pc,          \* where process_voice_message is after voice_client.play
    \* ---- AudioSink with its writer thread (SpecSink)
    s_data,           \* sink.audio_data: the entries in insertion order
    w_pc,             \* where the call of AudioSink.write is
    w_pkt,            \* the packet of that call
    n_pkt,            \* the packets written so far
    appended,         \* the packets whose bytes were appended to a buffer
    stamped,          \* the packets whose write set last_packet_time
    w_failed,         \* the packets whose write ended in its handler
    e_pc,             \* where record_audio_from_channel is after its loop
    e_user,           \* user_id
    e_audio,          \* audio_array
    e_i,              \* the position of the iterator of cleanup()
    e_size,           \* the size of the dict when the iteration began
    turns,            \* the results record_audio_from_channel returned
    stt_calls,        \* the audio the recognizer was called with
    resets,           \* the resets of the sink that ran to their end
    \* ---- TTSEngine.synthesize and its temporary files (SpecTts)
    t_pc,             \* where the call of synthesize is
    t_call,           \* the number of the call: each call has its own names
    disk,             \* the files of the temporary directory
    wav_bytes,        \* the size of the wav file of this call
    t_made,           \* the files this call has created
    t_ret,            \* what the call returned
    \* ---- MerithBot.on_message (SpecMsg)
    whitelist_channels, \* self.whitelist_channels (discord_client.py:47)
    m_pc,             \* where the handler of the message is
    m_msg,            \* the message it was called with
    m_calls,          \* the texts the language model was called with for it
    m_replies         \* the replies sent to it

callVars == <<max_tokens, self_max_tokens, voice_mode, tokens>>

llmVars == <<retry_attempts, attempt, llm_pc, requests, llm_trace,
             llm_outcomes, llm_return, callVars, sent_tokens>>

epVars == <<silence_timeout, ep_pc, ep_sleep, wait, local_age, sink_age,
            has_audio, heard, ep_eval, ep_out>>

sessVars == <<connected, vc_open, receiving, log_channel, pc, ppc, cancel_req,
              cancel_at, leave_pc, orphan_synth, rel, exit_how, silent,
              audio_data, turn, turn_seq, user_message, p_turn, response,
              audio_path, playing, play_path, files, next_path, trace>>

mgrVars == <<voice_loops, voice_clients, vc_live, vc_gen, tasks, cmds>>

roomVars == <<r_stage, r_sink, r_silent, r_turn, r_loops, r_clients, r_cancel,
              actor>>

playVars == <<waited, vc_playing, wait_pc>>

sinkVars == <<s_data, w_pc, w_pkt, n_pkt, appended, stamped, w_failed, e_pc,
              e_user, e_audio, e_i, e_size, turns, stt_calls, resets>>

\* The groups of the small machines at the end of the module.
ttsVars == <<t_pc, t_call, disk, wav_bytes, t_made, t_ret>>

msgVars == <<whitelist_channels, m_pc, m_msg, m_calls, m_replies>>

auxVars == <<sinkVars, ttsVars, msgVars>>

vars == <<llmVars, epVars, sessVars, mgrVars, roomVars, playVars, auxVars>>

(***************************************************************************)
(*                LMStudioClient.generate_response_async                   *)
(***************************************************************************)

\* Largest configured retry_attempts explored.
MaxRetryAttempts == 3

\* What one request can come to: a 200 answer with a well-formed body, a 200
\* answer whose body has no choices[0].message.content, another status, a
\* timeout, any other exception of the transport.
Outcomes == {"ok", "badbody", "status", "timeout", "error"}

\* llm_client.py:304-306: the request returns the reply only on status 200
\* with a body that parses; everything else is a failed attempt.
Succeeds(o) == o = "ok"

\* for attempt in range(self.retry_attempts), with one attempt too many.
HasAttemptOffByOne(a, n) == a <= n

\* for attempt in range(self.retry_attempts): the loop body runs for
\* attempt = 0 .. retry_attempts - 1 (llm_client.py:290).
HasAttempt(a, n) == a < n

\* if attempt < self.retry_attempts - 1: await asyncio.sleep(self.retry_delay)
\* (llm_client.py:309-310, 314-315, 318-319).
SleepsAfterFailure(a, n) == a < n - 1

Min(a, b) == IF a < b THEN a ELSE b

\* An optional number is <<>> for None and <<n>> for the number n.
None == <<>>

\* Largest token budget explored.
MaxTokens == 150

\* The token budgets explored, as argument and as configuration: None,
\* zero, and numbers below, at and above the cap of the voice mode.
TokenValues == {None} \cup {<<n>> : n \in {-1, 0, 1, 99, 100, 101, MaxTokens}}

\* The truth value Python gives an optional number: None and 0 are false.
Truthy(v) == v # None /\ v[1] # 0

\* a or b
Or(a, b) == IF Truthy(a) THEN a ELSE b

\* tokens = max_tokens or self.max_tokens (llm_client.py:280): what is
\* sent without the voice mode.
Budget(arg, cfg) == Or(arg, cfg)

\* The cap of the voice mode (llm_client.py:283).
VoiceCap == 100

\* A voice mode that leaves the budget as it is.
CappedNot(t) == t

\* tokens = min(tokens, 100) (llm_client.py:283), for a number.
Capped(t) == <<Min(t[1], VoiceCap)>>

InitLLM ==
    /\ retry_attempts \in 0..MaxRetryAttempts
    /\ attempt = 0
    /\ llm_pc = "entry"
    /\ requests = 0
    /\ llm_trace = <<>>
    /\ llm_outcomes = <<>>
    /\ llm_return = "pending"
    /\ max_tokens \in TokenValues
    /\ self_max_tokens \in TokenValues
    /\ voice_mode \in BOOLEAN
    /\ tokens = None
    /\ sent_tokens = {}

\* The machine at rest, for the specifications that do not run it.
RestLLM ==
    /\ retry_attempts = 0
    /\ attempt = 0
    /\ llm_pc = "rest"
    /\ requests = 0
    /\ llm_trace = <<>>
    /\ llm_outcomes = <<>>
    /\ llm_return = "pending"
    /\ max_tokens = None
    /\ self_max_tokens = <<VoiceCap>>
    /\ voice_mode = FALSE
    /\ tokens = None
    /\ sent_tokens = {}

\* The other machines do not move while this one runs.
LlmFrame ==
    UNCHANGED <<epVars, sessVars, mgrVars, roomVars, playVars, auxVars>>

\* The call up to its loop (llm_client.py:279-288): the budget is the
\* argument or, when that is None or 0, the configured one; the voice mode
\* caps it.  min(None, 100) raises TypeError, outside every try block of
\* the function: the call raises and posts nothing.
LlmEntry ==
    /\ llm_pc = "entry"
    /\ LET t == Budget(max_tokens, self_max_tokens) IN
       IF voice_mode /\ t = None
       THEN /\ llm_pc' = "raised"
            /\ llm_return' = "TypeError"
            /\ tokens' = t
       ELSE /\ llm_pc' = "loop"
            /\ llm_return' = llm_return
            /\ tokens' = IF voice_mode THEN Capped(t) ELSE t
    /\ UNCHANGED <<retry_attempts, attempt, requests, llm_trace, llm_outcomes,
                   max_tokens, self_max_tokens, voice_mode, sent_tokens>>
    /\ LlmFrame

\* The head of the for loop: the next session.post, or the fall through to
\* return "[LM Studio unavailable]" (llm_client.py:290-303, 321).
LlmLoop ==
    /\ llm_pc = "loop"
    /\ IF HasAttempt(attempt, retry_attempts)
       THEN /\ requests' = requests + 1
            /\ llm_trace' = Append(llm_trace, "request")
            /\ llm_pc' = "post"
            /\ llm_return' = llm_return
            /\ sent_tokens' = sent_tokens \cup {tokens}
       ELSE /\ llm_pc' = "returned"
            /\ llm_return' = "unavailable"
            /\ UNCHANGED <<requests, llm_trace, sent_tokens>>
    /\ UNCHANGED <<retry_attempts, attempt, llm_outcomes, callVars>>
    /\ LlmFrame

\* The request comes back with outcome o (llm_client.py:304-319).
LlmResponse(o) ==
    /\ llm_pc = "post"
    /\ llm_outcomes' = Append(llm_outcomes, o)
    /\ IF Succeeds(o)
       THEN /\ llm_pc' = "returned"
            /\ llm_return' = "reply"
            /\ UNCHANGED <<attempt, llm_trace>>
       ELSE /\ llm_return' = llm_return
            /\ IF SleepsAfterFailure(attempt, retry_attempts)
               THEN /\ llm_pc' = "delay"
                    /\ llm_trace' = Append(llm_trace, "delay")
                    /\ attempt' = attempt
               ELSE /\ llm_pc' = "loop"
                    /\ attempt' = attempt + 1
                    /\ llm_trace' = llm_trace
    /\ UNCHANGED <<retry_attempts, requests, callVars, sent_tokens>>
    /\ LlmFrame

\* await asyncio.sleep(self.retry_delay) is over; the next iteration.
LlmDelayDone ==
    /\ llm_pc = "delay"
    /\ llm_pc' = "loop"
    /\ attempt' = attempt + 1
    /\ UNCHANGED <<retry_attempts, requests, llm_trace, llm_outcomes,
                   llm_return, callVars, sent_tokens>>
    /\ LlmFrame

NextLLM ==
    \/ LlmEntry
    \/ LlmLoop
    \/ \E o \in Outcomes : LlmResponse(o)
    \/ LlmDelayDone

\* C29: the voice mode caps the token budget.  Every request of a call in
\* voice mode carries a number of at most 100 that is not larger than what
\* the same arguments send without the voice mode; a call without the voice
\* mode sends the argument or, for None or 0, the configured budget.
C29_VoiceTokenCap ==
    \A v \in sent_tokens :
        IF voice_mode
        THEN /\ v # None
             /\ v[1] <= VoiceCap
             /\ Budget(max_tokens, self_max_tokens) # None
             /\ v[1] <= Budget(max_tokens, self_max_tokens)[1]
        ELSE v = Budget(max_tokens, self_max_tokens)

\* A voice call with no argument under a configured budget above the cap
\* has posted a request with the cap.
C29_Witness ==
    /\ voice_mode
    /\ max_tokens = None
    /\ self_max_tokens = <<MaxTokens>>
    /\ sent_tokens = {<<VoiceCap>>}
    /\ llm_pc = "returned"

\* k requests with one retry delay between each two of them.
RECURSIVE Attempts(_)
Attempts(k) ==
    IF k = 0 THEN <<>>
    ELSE IF k = 1 THEN <<"request">>
    ELSE Attempts(k - 1) \o <<"delay", "request">>

\* C10: with retry_attempts = N, a call whose every attempt fails at the
\* transport makes exactly N requests, one retry delay between each two,
\* and returns the "unavailable" sentinel (it does not raise); a call whose
\* k-th attempt is the first to succeed returns the reply after exactly k
\* requests, k <= N.
C10_RetryContract ==
    llm_pc = "returned" =>
        /\ llm_return \in {"reply", "unavailable"}
        /\ llm_trace = Attempts(requests)
        /\ requests = Len(llm_outcomes)
        /\ requests <= retry_attempts
        /\ \A i \in 1..(requests - 1) : ~Succeeds(llm_outcomes[i])
        /\ llm_return = "unavailable" =>
              /\ requests = retry_attempts
              /\ \A i \in 1..requests : ~Succeeds(llm_outcomes[i])
        /\ llm_return = "reply" =>
              /\ requests >= 1
              /\ Succeeds(llm_outcomes[requests])

\* The scenario of the specification: three attempts configured, each of the
\* three failed in its own way, the sentinel returned.
C10_Witness ==
    /\ llm_pc = "returned"
    /\ llm_return = "unavailable"
    /\ retry_attempts = 3
    /\ llm_outcomes = <<"error", "timeout", "status">>
    /\ llm_trace = <<"request", "delay", "request", "delay", "request">>

(***************************************************************************)
(*  VoiceHandler.record_audio_from_channel inside full_voice_loop, timed   *)
(*                                                                         *)
(* Time is counted in ticks of one poll interval (100 ms).  The variables  *)
(* hold ages (now minus a recorded time), so that the state stays finite.  *)
(* A poll reads sink.last_packet_time, tests the ceiling and evaluates the *)
(* while condition without awaiting in between: one action.  AudioSink     *)
(* .write is taken as one step here (buffer and last_packet_time change    *)
(* together).                                                              *)
(***************************************************************************)

\* await asyncio.sleep(0.1): one tick.
PollTicks == 1

\* duration: float = 3.0, the default of record_audio_from_channel.
DefaultDuration == 30

\* if time.time() - start_wait > 30: return None
WaitCeiling == 300

\* await asyncio.sleep(0.5) after "No audio recorded, continuing...".
IdleSleep == 5

\* The configured voice.silence_timeout_seconds explored: below, at and above
\* the default of the parameter.
SilenceTimeouts == {20, 30, 40}

\* Ages at or above this bound are not told apart.
AgeCap == 45

\* audio_result = await self.record_audio_from_channel(guild, sink): the
\* call passes no duration, the parameter takes its default.
CallDuration == DefaultDuration

\* if sink.last_packet_time > last_packet_time:
\*     last_packet_time = sink.last_packet_time
\* in ages: the younger of the two.
Refresh(local, sink) == IF sink < local THEN sink ELSE local

\* while time.time() - last_packet_time < duration
StillListening(age, d) == age < d

\* A ceiling of twice the time.
CeilingHitDoubled(w) == w > 2 * WaitCeiling

\* if time.time() - start_wait > 30
CeilingHit(w) == w > WaitCeiling

NoEval == [valid |-> FALSE, age |-> 0, fired |-> FALSE]
NoOut == [kind |-> "none", why |-> "none", age |-> 0, had_audio |-> FALSE]

InitEp ==
    /\ silence_timeout \in SilenceTimeouts
    /\ ep_pc = "call"
    /\ ep_sleep = 0
    /\ wait = 0
    /\ local_age = 0
    /\ sink_age = 0          \* AudioSink.__init__: last_packet_time = now
    /\ has_audio = FALSE
    /\ heard = FALSE
    /\ ep_eval = NoEval
    /\ ep_out = NoOut

RestEp ==
    /\ silence_timeout = DefaultDuration
    /\ ep_pc = "rest"
    /\ ep_sleep = 0
    /\ wait = 0
    /\ local_age = 0
    /\ sink_age = 0
    /\ has_audio = FALSE
    /\ heard = FALSE
    /\ ep_eval = NoEval
    /\ ep_out = NoOut

EpFrame ==
    UNCHANGED <<llmVars, sessVars, mgrVars, roomVars, playVars, auxVars>>

\* Lines 214-246, reached when the while loop ends: no audio gives None,
\* audio gives the Turn and clears the sink.
AfterLoop ==
    IF has_audio
    THEN /\ ep_out' = [kind |-> "turn", why |-> "silence", age |-> sink_age,
                       had_audio |-> TRUE]
         /\ has_audio' = FALSE
         /\ heard' = FALSE
         /\ ep_pc' = "turn"
         /\ ep_sleep' = 0
    ELSE /\ ep_out' = [kind |-> "no_turn", why |-> "silence", age |-> sink_age,
                       had_audio |-> FALSE]
         /\ ep_pc' = "idle"
         /\ ep_sleep' = IdleSleep
         /\ UNCHANGED <<has_audio, heard>>

\* Line 205 with the local age a: into the sleep of line 206, or out of the loop.
Evaluate(a) ==
    /\ ep_eval' = [valid |-> TRUE, age |-> a,
                   fired |-> ~StillListening(a, CallDuration)]
    /\ IF StillListening(a, CallDuration)
       THEN /\ ep_pc' = "poll"
            /\ ep_sleep' = PollTicks
            /\ ep_out' = NoOut
            /\ UNCHANGED <<has_audio, heard>>
       ELSE AfterLoop

\* A ceiling that ends the recording: the sink cleared and the silence
\* counted anew.
AtCeilingResets ==
    /\ ep_out' = [kind |-> "no_turn", why |-> "ceiling", age |-> sink_age,
                  had_audio |-> has_audio]
    /\ ep_pc' = "idle"
    /\ ep_sleep' = IdleSleep
    /\ has_audio' = FALSE
    /\ heard' = FALSE
    /\ sink_age' = 0

\* Lines 211-212: return None, whatever the sink holds, and the sink is
\* not touched; full_voice_loop then sleeps 0.5 s and continues (389-392).
AtCeiling ==
    /\ ep_out' = [kind |-> "no_turn", why |-> "ceiling", age |-> sink_age,
                  had_audio |-> has_audio]
    /\ ep_pc' = "idle"
    /\ ep_sleep' = IdleSleep
    /\ UNCHANGED <<has_audio, heard, sink_age>>

\* full_voice_loop calls record_audio_from_channel (line 387); lines 195-205
\* run up to the first sleep, or to the return when the loop body never runs.
RecordCall ==
    /\ ep_pc = "call"
    /\ Evaluate(sink_age)
    /\ wait' = 0
    /\ local_age' = IF StillListening(sink_age, CallDuration) THEN sink_age ELSE 0
    /\ UNCHANGED <<silence_timeout, sink_age>>
    /\ EpFrame

\* The sleep of line 206 is over: lines 207-212, then line 205 again.
PollWake ==
    /\ ep_pc = "poll"
    /\ ep_sleep = 0
    /\ LET a == Refresh(local_age, sink_age) IN
       IF CeilingHit(wait)
       THEN /\ AtCeiling
            /\ wait' = 0
            /\ local_age' = 0
            /\ ep_eval' = NoEval
       ELSE /\ Evaluate(a)
            /\ wait' = IF StillListening(a, CallDuration) THEN wait ELSE 0
            /\ local_age' = IF StillListening(a, CallDuration) THEN a ELSE 0
            /\ UNCHANGED sink_age
    /\ UNCHANGED silence_timeout
    /\ EpFrame

\* The sleep of line 391 is over: continue, back to the call of line 387.
IdleWake ==
    /\ ep_pc = "idle"
    /\ ep_sleep = 0
    /\ ep_pc' = "call"
    /\ UNCHANGED <<silence_timeout, ep_sleep, wait, local_age, sink_age,
                   has_audio, heard, ep_eval, ep_out>>
    /\ EpFrame

\* The pipeline run of the Turn is over (lines 394-430): the next iteration.
TurnDone ==
    /\ ep_pc = "turn"
    /\ ep_pc' = "call"
    /\ UNCHANGED <<silence_timeout, ep_sleep, wait, local_age, sink_age,
                   has_audio, heard, ep_eval, ep_out>>
    /\ EpFrame

\* AudioSink.write: a packet of some speaker arrives.
EpWrite ==
    /\ ep_pc # "stopped"
    /\ has_audio' = TRUE
    /\ sink_age' = 0
    /\ heard' = (ep_pc \in {"call", "poll", "idle"})
    /\ UNCHANGED <<silence_timeout, ep_pc, ep_sleep, wait, local_age,
                   ep_eval, ep_out>>
    /\ EpFrame

\* One tick passes.  A sleep that is over is woken before the next tick;
\* the lines between two awaits take no time.
EpTick ==
    /\ \/ ep_pc \in {"poll", "idle"} /\ ep_sleep > 0
       \/ ep_pc = "turn"
    /\ ep_sleep' = IF ep_sleep > 0 THEN ep_sleep - 1 ELSE 0
    /\ sink_age' = Min(sink_age + 1, AgeCap)
    /\ IF ep_pc = "poll"
       THEN /\ wait' = wait + 1
            /\ local_age' = Min(local_age + 1, AgeCap)
       ELSE UNCHANGED <<wait, local_age>>
    /\ UNCHANGED <<silence_timeout, ep_pc, has_audio, heard, ep_eval, ep_out>>
    /\ EpFrame

\* The task is cancelled: CancelledError at the await it is suspended on,
\* then the finally block (stop_listening, sink.cleanup).
EpCancel ==
    /\ ep_pc \in {"poll", "idle", "turn"}
    /\ ep_pc' = "stopped"
    /\ ep_sleep' = 0
    /\ wait' = 0
    /\ local_age' = 0
    /\ has_audio' = FALSE
    /\ heard' = FALSE
    /\ ep_eval' = NoEval
    /\ ep_out' = NoOut
    /\ UNCHANGED <<silence_timeout, sink_age>>
    /\ EpFrame

\* The length of a stall explored, in ticks.
StallTicks == 300

\* The wake-up of a sleep that is over comes late: asyncio.sleep suspends
\* for at least its delay, and the task runs when the event loop gets to
\* it; or the wall clock that time.time() reads is set forward.  The task
\* finds StallTicks more on the clock than its sleep accounts for.
EpStall ==
    /\ ep_pc = "poll"
    /\ ep_sleep = 0
    /\ wait <= WaitCeiling
    /\ wait' = wait + StallTicks
    /\ sink_age' = Min(sink_age + StallTicks, AgeCap)
    /\ local_age' = Min(local_age + StallTicks, AgeCap)
    /\ UNCHANGED <<silence_timeout, ep_pc, ep_sleep, has_audio, heard,
                   ep_eval, ep_out>>
    /\ EpFrame

NextEp ==
    \/ RecordCall
    \/ PollWake
    \/ IdleWake
    \/ TurnDone
    \/ EpWrite
    \/ EpTick
    \/ EpCancel

\* C3: the Endpointer does not leave its loop through the silence exit, and
\* so emits no Turn, before the time since the most recent packet of the
\* room has reached the configured silence timeout: while packets keep
\* arriving with smaller gaps, no Turn is emitted.
C3_NoEarlyEndpoint ==
    (ep_out.kind = "turn" /\ ep_out.why = "silence")
        => ep_out.age >= silence_timeout

\* C4: while the session is listening and not cancelled, once the last
\* packet (received while listening) is a silence timeout old, the ENDPOINT
\* has fired at the latest one poll interval later: no listening state shows
\* a last packet older than the timeout plus one poll interval.  Stated for
\* the configuration whose silence timeout is the duration the Endpointer
\* is called with.
C4_EndpointWithinOnePoll ==
    (silence_timeout = CallDuration /\ ep_pc \in {"call", "poll", "idle"} /\ heard)
        => sink_age <= silence_timeout + PollTicks

\* C5: the while condition of the Endpointer tests the configured silence
\* timeout: an evaluation leaves the loop exactly when the time since the
\* last packet is at least silence_timeout.
C5_ConfiguredThreshold ==
    ep_eval.valid => (ep_eval.fired <=> ep_eval.age >= silence_timeout)

\* C6: when the 30 s ceiling is exceeded while a speaker has buffered audio,
\* record_audio_from_channel returns a Turn for that audio.
C6_CeilingEmitsTurn ==
    (ep_out.why = "ceiling" /\ ep_out.had_audio) => ep_out.kind = "turn"

\* C27: every call of record_audio_from_channel is over at most one poll
\* interval after 30 s, whatever the configured silence timeout and
\* whatever packets arrive: the loop never waits past the first poll
\* after the ceiling, and never sleeps again once that poll is due.
C27_ListeningBounded ==
    ep_pc = "poll"
        => /\ wait <= WaitCeiling + PollTicks
           /\ wait > WaitCeiling => ep_sleep = 0

\* A call under the shortest configured timeout has returned at the
\* ceiling, while packets kept arriving.
C27_Witness ==
    /\ silence_timeout = 20
    /\ ep_out.why = "ceiling"
    /\ ep_out.had_audio
    /\ ep_pc = "idle"

\* The endpoint machine with sleeps that may overrun.
NextEpStall ==
    \/ NextEp
    \/ EpStall

\* C30: when the ceiling fires and no speaker has buffered audio, the call
\* returns no Turn and leaves the sink as it is, buffers and last packet
\* time; the loop pauses and calls record_audio_from_channel again.
C30_CeilingWithoutAudio ==
    /\ [][(ep_pc = "poll" /\ ep_out'.why = "ceiling" /\ ~has_audio)
            => /\ ep_out'.kind = "no_turn"
               /\ ~has_audio'
               /\ sink_age' = sink_age
               /\ ep_pc' = "idle"]_vars
    /\ [](ep_out.why = "ceiling" => ep_pc \in {"idle", "call"})

\* The ceiling fired on an empty sink, whose last packet is as old as it
\* was, and the session is back at its call of record_audio_from_channel.
C30_Witness ==
    /\ ep_out.why = "ceiling"
    /\ ~ep_out.had_audio
    /\ ~has_audio
    /\ sink_age >= ep_out.age
    /\ ep_out.age > CallDuration
    /\ ep_pc = "call"

(***************************************************************************)
(*   VoiceHandler.full_voice_loop and process_voice_message of one room    *)
(*                                                                         *)
(* One action per stretch of code between two awaits.  Time is abstracted  *)
(* to one bit, silent: the time since the last packet has reached the      *)
(* duration of record_audio_from_channel; the ceilings of the two wait     *)
(* loops are exits that can be taken at any poll.  The bytes of a buffer   *)
(* are abstracted to the phases they were written in: "L" while the        *)
(* session was listening (record_audio_from_channel, or the pause after it *)
(* returned None), "P" while a Turn was being processed.                   *)
(***************************************************************************)

Speakers == {"u1", "u2"}

\* The whitespace str.strip() removes, as far as the texts explored hold it.
Whitespace == {" ", "\t"}

\* stt_kyutai.py: "[No speech detected]", the recognizer's sentinel.
NoSpeech == <<"[", "a">>

\* The recognized texts explored: the empty text, the sentinel, dots,
\* blanks and dots, whitespace that is no blank, dots around it, speech,
\* and speech among blanks and dots.
Texts ==
    {<<>>, NoSpeech, <<".">>, <<" ", ".", " ">>, <<"\t">>, <<".", "\t", ".">>,
     <<"a">>, <<" ", "a", ".">>}

\* The replies of the language model explored: empty, the sentinel of
\* llm_client.py:321, a text.
Responses == {<<>>, <<"[", "a">>, <<"a">>}

\* Most temporary files the synthesizer creates in one behaviour.
MaxFiles == 2

\* user_message before the recognizer has returned.
Unbound == <<"unbound">>

NoTurn == [valid |-> FALSE, id |-> 0, user |-> "", audio |-> <<>>]

Range(s) == {s[i] : i \in 1..Len(s)}

\* str.startswith(c)
StartsWith(s, c) == Len(s) > 0 /\ s[1] = c

\* str.replace(c, "")
Remove(s, c) == SelectSeq(s, LAMBDA x : x # c)

\* str.strip(): leading and trailing whitespace removed.
RECURSIVE LStrip(_)
LStrip(s) ==
    IF s # <<>> /\ s[1] \in Whitespace THEN LStrip(Tail(s)) ELSE s

RECURSIVE RStrip(_)
RStrip(s) ==
    IF s # <<>> /\ s[Len(s)] \in Whitespace
    THEN RStrip(SubSeq(s, 1, Len(s) - 1))
    ELSE s

Strip(s) == RStrip(LStrip(s))

\* The filter without the removal of the dots.
DiscardsNoDots(s) ==
    \/ s = <<>>
    \/ StartsWith(s, "[")
    \/ Strip(Remove(s, " ")) = <<>>

\* The filter without the test of the sentinel.
DiscardsNoSentinel(s) ==
    \/ s = <<>>
    \/ Strip(Remove(Remove(s, "."), " ")) = <<>>

\* voice_handler.py:405 and 411:
\*   if not user_message or user_message.startswith("["): ... continue
\*   if user_message.replace(".", "").replace(" ", "").strip() == "": ... continue
Discards(s) ==
    \/ s = <<>>
    \/ StartsWith(s, "[")
    \/ Strip(Remove(Remove(s, "."), " ")) = <<>>

\* The test of the reply without the test of the sentinel.
InvalidEmptyOnly(r) == r = <<>>

\* voice_handler.py:287: if not response or response.startswith("[")
Invalid(r) == r = <<>> \/ StartsWith(r, "[")

\* process_voice_message is started and not awaited.
AwaitPcFireAndForget == "yield"

\* await self.process_voice_message(...) (line 427): the loop stays suspended
\* until the coroutine returns.
AwaitPc == "process"

\* The phase a packet is written in.
Tag == IF pc \in {"record", "idle"} THEN "L" ELSE "P"

\* AudioSink.write on the dict: a new speaker is appended with a buffer of
\* its own, a known speaker's buffer grows (lines 46-49).
Put(ad, u, t) ==
    IF \E i \in 1..Len(ad) : ad[i].user = u
    THEN [i \in 1..Len(ad) |->
            IF ad[i].user = u /\ ad[i].pcm[Len(ad[i].pcm)] # t
            THEN [ad[i] EXCEPT !.pcm = Append(@, t)]
            ELSE ad[i]]
    ELSE Append(ad, [user |-> u, pcm |-> <<t>>])

\* cancel_at before leave_voice has run.
NoCancel == [stage |-> "none", registered |-> FALSE]

\* What generate_response_async returned: nothing, a bracketed sentinel
\* such as "[LM Studio unavailable]" (llm_client.py:321), or a text.
ReplyKind(r) ==
    IF r = <<>> THEN "reply_empty"
    ELSE IF r[1] = "[" THEN "reply_sentinel"
    ELSE "reply_text"

\* The test of the synthesizer's result taken out.
NoAudioUnchecked(p) == FALSE

\* voice_handler.py:302: if not audio_path
NoAudio(p) == p = 0

\* An after callback that leaves the file.
OnPlaybackDoneKeeps(fs, p) == fs

\* _on_playback_done (lines 489-496): os.unlink(audio_path) when the file
\* exists.
OnPlaybackDone(fs, p) == fs \ {p}

\* A finally block that does not stop the reception.
ReleasesNoStop == <<"cleanup">>

\* The finally block of full_voice_loop (lines 447-449):
\* voice_client.stop_listening(), then sink.cleanup().
Releases == <<"stop_listening", "cleanup">>

\* A loop that a fault of an iteration ends.
AfterFaultEnds == "done"

\* except Exception of the loop body (lines 435-439): the error is logged
\* and the loop goes on after sleep(1).
AfterFault == "err_sleep"

InitSess ==
    /\ connected = TRUE
    /\ vc_open = TRUE
    /\ receiving = FALSE
    /\ log_channel \in BOOLEAN
    /\ pc = "start"
    /\ ppc = "none"
    /\ cancel_req = FALSE
    /\ cancel_at = NoCancel
    /\ leave_pc = "none"
    /\ orphan_synth = FALSE
    /\ rel = <<>>
    /\ exit_how = "none"
    /\ silent = FALSE
    /\ audio_data = <<>>
    /\ turn = NoTurn
    /\ turn_seq = 0
    /\ user_message = Unbound
    /\ p_turn = {}
    /\ response = <<>>
    /\ audio_path = 0
    /\ playing = FALSE
    /\ play_path = 0
    /\ files = {}
    /\ next_path = 1
    /\ trace = <<>>

RestSess ==
    /\ connected = FALSE
    /\ vc_open = FALSE
    /\ receiving = FALSE
    /\ log_channel = FALSE
    /\ pc = "rest"
    /\ ppc = "none"
    /\ cancel_req = FALSE
    /\ cancel_at = NoCancel
    /\ leave_pc = "none"
    /\ orphan_synth = FALSE
    /\ rel = <<>>
    /\ exit_how = "none"
    /\ silent = FALSE
    /\ audio_data = <<>>
    /\ turn = NoTurn
    /\ turn_seq = 0
    /\ user_message = Unbound
    /\ p_turn = {}
    /\ response = <<>>
    /\ audio_path = 0
    /\ playing = FALSE
    /\ play_path = 0
    /\ files = {}
    /\ next_path = 1
    /\ trace = <<>>

SessFrame ==
    UNCHANGED <<llmVars, epVars, mgrVars, roomVars, playVars, auxVars>>

\* The variables each group of fragments below leaves alone.
envVars == <<connected, vc_open, log_channel, silent, playing, play_path>>
procVars == <<ppc, p_turn, response, audio_path>>
fileVars == <<files, next_path>>
leaveVars == <<cancel_req, cancel_at, leave_pc, orphan_synth>>

\* The finally block of full_voice_loop (lines 445-453): stop_listening and
\* sink.cleanup in one try block with a bare except, then the task ends.
\* When stop_listening raises, sink.cleanup is skipped and the error
\* dropped: the reception and the buffers stay as they are.
Finally(how) ==
    /\ pc' = "done"
    /\ exit_how' = how
    /\ \E stopped \in BOOLEAN :
          /\ rel' = rel \o (IF stopped THEN Releases ELSE SubSeq(Releases, 1, 1))
          /\ receiving' = (receiving /\ ~stopped)
          /\ audio_data' = IF stopped THEN <<>> ELSE audio_data
    /\ turn' = NoTurn
    /\ user_message' = Unbound
    /\ trace' = <<>>
    /\ turn_seq' = turn_seq

\* Lines 214-246 of record_audio_from_channel, reached when its while loop
\* has ended.  None when the sink is empty; None as well, through the except
\* of line 248 and before the sink is cleared, when self.voice_clients no
\* longer holds the guild (line 226).  Otherwise the audio of the first
\* speaker of the dict, and the whole sink cleared (lines 237-238); the loop
\* then hands the audio to the recognizer (line 399).
EndOfRecording ==
    IF audio_data = <<>> \/ ~connected
    THEN /\ pc' = "idle"
         /\ turn' = NoTurn
         /\ user_message' = Unbound
         /\ trace' = <<>>
         /\ UNCHANGED <<exit_how, rel, receiving, audio_data, turn_seq>>
    ELSE /\ pc' = "stt"
         /\ turn' = [valid |-> TRUE, id |-> 1 - turn_seq,
                     user |-> audio_data[1].user, audio |-> audio_data[1].pcm]
         /\ turn_seq' = 1 - turn_seq
         /\ audio_data' = <<>>
         /\ user_message' = Unbound
         /\ trace' = <<>>
         /\ UNCHANGED <<exit_how, rel, receiving>>

\* while guild_id in self.voice_clients (line 383), then the call of
\* record_audio_from_channel up to its first sleep (lines 387, 195-206).
LoopHead ==
    IF ~connected
    THEN Finally("loop")
    ELSE IF silent
    THEN EndOfRecording
    ELSE /\ pc' = "record"
         /\ turn' = NoTurn
         /\ user_message' = Unbound
         /\ trace' = <<>>
         /\ UNCHANGED <<exit_how, rel, receiving, audio_data, turn_seq>>

\* The task runs for the first time (lines 367-387).  A guild that is no
\* longer in self.voice_clients ends it with the KeyError of line 368, a
\* client that is no longer connected with the error listen raises (line
\* 377): both lie before the try of line 382, so the finally block is not
\* run.
TaskStart ==
    /\ pc = "start"
    /\ ~cancel_req
    /\ IF connected /\ vc_open
       THEN /\ pc' = "record"
            /\ receiving' = TRUE
            /\ silent' = FALSE
            /\ exit_how' = exit_how
       ELSE /\ pc' = "done"
            /\ exit_how' = "error"
            /\ UNCHANGED <<receiving, silent>>
    /\ UNCHANGED <<connected, vc_open, log_channel, rel, audio_data, turn,
                   turn_seq, user_message, playing, play_path, trace>>
    /\ UNCHANGED <<procVars, fileVars, leaveVars>>
    /\ SessFrame

\* A poll of record_audio_from_channel finds the silence: the loop ends.
RecordSilence ==
    /\ pc = "record"
    /\ ~cancel_req
    /\ silent
    /\ EndOfRecording
    /\ UNCHANGED <<envVars, procVars, fileVars, leaveVars>>
    /\ SessFrame

\* A poll of record_audio_from_channel finds the ceiling exceeded (lines
\* 211-212): return None, then the pause of line 391.
RecordCeiling ==
    /\ pc = "record"
    /\ ~cancel_req
    /\ pc' = "idle"
    /\ UNCHANGED <<exit_how, rel, receiving, audio_data, turn, turn_seq,
                   user_message, trace>>
    /\ UNCHANGED <<envVars, procVars, fileVars, leaveVars>>
    /\ SessFrame

\* The sleep that ends an iteration is over (lines 391, 407, 413, 430, 439):
\* the next iteration.
NextIteration(p) ==
    /\ pc = p
    /\ ~cancel_req
    /\ LoopHead
    /\ UNCHANGED <<envVars, procVars, fileVars, leaveVars>>
    /\ SessFrame

\* process_voice_message returns val, with tr what the iteration has done
\* so far: its locals are gone, the loop that awaits it drops the value and
\* goes on to the sleep(0) of line 430.
ProcessReturn(tr, val) ==
    /\ ppc' = "none"
    /\ p_turn' = {}
    /\ response' = <<>>
    /\ audio_path' = 0
    /\ trace' = Append(tr, IF val THEN "return_true" ELSE "return_false")
    /\ pc' = IF pc \in {"process", "stt", "log_user"} THEN "yield" ELSE pc

\* The call of process_voice_message (line 427) up to its first await
\* (lines 269-285), with tr what the iteration has done so far.
ProcessStart(tr) ==
    IF ~connected
    THEN ProcessReturn(tr, FALSE)
    ELSE /\ pc' = AwaitPc
         /\ ppc' = "llm"
         /\ p_turn' = {turn.id}
         /\ trace' = Append(tr, "llm")
         /\ UNCHANGED <<response, audio_path>>

\* A loop that never posts the transcript.
PostsTranscriptNever(lc) == FALSE

\* if log_channel: (line 419), with lc whether the task was given a log
\* channel: the transcript is posted when it was.
PostsTranscript(lc) == lc

\* The recognizer returns text (line 399); the filter (lines 405-414); the
\* post of the transcript (line 421) or, without a log channel, the call of
\* process_voice_message.
SttReturn(text) ==
    /\ pc = "stt"
    /\ ~cancel_req
    /\ user_message' = text
    /\ IF Discards(text)
       THEN /\ pc' = "discard"
            /\ UNCHANGED <<trace, procVars>>
       ELSE IF PostsTranscript(log_channel)
       THEN /\ pc' = "log_user"
            /\ UNCHANGED <<trace, procVars>>
       ELSE ProcessStart(trace)
    /\ UNCHANGED <<exit_how, rel, receiving, audio_data, turn, turn_seq>>
    /\ UNCHANGED <<envVars, fileVars, leaveVars>>
    /\ SessFrame

\* The executor call raises: except Exception of line 435, sleep(1).
SttFault ==
    /\ pc = "stt"
    /\ ~cancel_req
    /\ pc' = AfterFault
    /\ trace' = Append(trace, "fault")
    /\ UNCHANGED <<exit_how, rel, receiving, audio_data, turn, turn_seq,
                   user_message>>
    /\ UNCHANGED <<envVars, procVars, fileVars, leaveVars>>
    /\ SessFrame

\* A post whose error is left to the handlers around it.
OnLogFaultRaises == "raise"

\* try: await log_channel.send(...) except Exception as e: logger.error(...)
\* (lines 420-424 and 318-327): the error is logged and nothing else.
OnLogFault == "swallow"

\* log_channel.send of the user's transcript returns or raises (lines
\* 420-424); either way process_voice_message is called next.
LogUserReturn(ok) ==
    /\ pc = "log_user"
    /\ ~cancel_req
    /\ IF ok \/ OnLogFault = "swallow"
       THEN ProcessStart(Append(trace,
                                IF ok THEN "log_user" ELSE "log_user_failed"))
       ELSE /\ pc' = AfterFault
            /\ trace' = Append(trace, "log_user_failed")
            /\ UNCHANGED procVars
    /\ UNCHANGED <<exit_how, rel, receiving, audio_data, turn, turn_seq,
                   user_message>>
    /\ UNCHANGED <<envVars, fileVars, leaveVars>>
    /\ SessFrame

\* voice_client.play of the file p (line 331) and the first test of the
\* wait loop (336), with tr what the iteration has done so far and fs the
\* files that exist.  play raises when the client is already playing or no
\* longer connected: the handler of line 343 removes the file, the error
\* is raised again, and the handler of line 354 returns False.
PlayStart(tr, p, fs) ==
    IF playing \/ ~vc_open
    THEN /\ files' = fs \ {p}
         /\ ProcessReturn(Append(tr, "play_error"), FALSE)
         /\ UNCHANGED <<playing, play_path>>
    ELSE /\ playing' = TRUE
         /\ play_path' = p
         /\ files' = fs
         /\ trace' = Append(tr, "play")
         /\ ppc' = "play"
         /\ audio_path' = p
         /\ UNCHANGED <<pc, p_turn, response>>

\* generate_response_async returns r (lines 281-289); a valid reply goes on
\* to synthesize_async (line 300).
LlmReturn(r) ==
    /\ ppc = "llm"
    /\ ~cancel_req
    /\ IF Invalid(r)
       THEN ProcessReturn(Append(trace, ReplyKind(r)), FALSE)
       ELSE /\ ppc' = "tts"
            /\ response' = r
            /\ trace' = trace \o <<ReplyKind(r), "tts">>
            /\ UNCHANGED <<pc, p_turn, audio_path>>
    /\ UNCHANGED <<exit_how, rel, receiving, audio_data, turn, turn_seq,
                   user_message>>
    /\ UNCHANGED <<envVars, fileVars, leaveVars>>
    /\ SessFrame

\* generate_response_async or synthesize_async raises: the handler of line
\* 354 returns False.
StageFault ==
    /\ ppc \in {"llm", "tts"}
    /\ ~cancel_req
    /\ ProcessReturn(Append(trace, "fault"), FALSE)
    /\ UNCHANGED <<exit_how, rel, receiving, audio_data, turn, turn_seq,
                   user_message>>
    /\ UNCHANGED <<envVars, fileVars, leaveVars>>
    /\ SessFrame

\* synthesize_async returns p, None (0) or the path of a new file (lines
\* 300-314); then the test of line 302, the post of the reply (line 320)
\* or, without a log channel, the playback.
TtsReturn(p) ==
    /\ ppc = "tts"
    /\ ~cancel_req
    /\ next_path' = IF p = 0 THEN next_path ELSE next_path + 1
    /\ LET tr == Append(trace, IF p = 0 THEN "tts_none" ELSE "file")
           fs == IF p = 0 THEN files ELSE files \cup {p}
       IN  IF NoAudio(p)
           THEN /\ ProcessReturn(tr, FALSE)
                /\ files' = fs
                /\ UNCHANGED <<playing, play_path>>
           ELSE IF log_channel
           THEN /\ ppc' = "log_bot"
                /\ audio_path' = p
                /\ files' = fs
                /\ trace' = tr
                /\ UNCHANGED <<pc, p_turn, response, playing, play_path>>
           ELSE PlayStart(tr, p, fs)
    /\ UNCHANGED <<exit_how, rel, receiving, audio_data, turn, turn_seq,
                   user_message>>
    /\ UNCHANGED <<connected, vc_open, log_channel, silent, leaveVars>>
    /\ SessFrame

\* synthesize_async returns None (lines 302-304): the run returns False.
TtsNone == TtsReturn(0)

\* synthesize_async returns the path of a new file.
TtsFile ==
    /\ next_path <= MaxFiles
    /\ TtsReturn(next_path)

\* log_channel.send of the reply returns or raises (lines 318-325); the
\* playback is started next.
LogBotReturn(ok) ==
    /\ ppc = "log_bot"
    /\ ~cancel_req
    /\ IF ok \/ OnLogFault = "swallow"
       THEN PlayStart(Append(trace, IF ok THEN "log_bot" ELSE "log_bot_failed"),
                      audio_path, files)
       ELSE /\ files' = files \ {audio_path}
            /\ ProcessReturn(Append(trace, "log_bot_failed"), FALSE)
            /\ UNCHANGED <<playing, play_path>>
    /\ next_path' = next_path
    /\ UNCHANGED <<exit_how, rel, receiving, audio_data, turn, turn_seq,
                   user_message>>
    /\ UNCHANGED <<connected, vc_open, log_channel, silent, leaveVars>>
    /\ SessFrame

\* A poll of the wait loop finds the playback over (line 336): return True.
PlayDone ==
    /\ ppc = "play"
    /\ ~cancel_req
    /\ ~playing
    /\ ProcessReturn(Append(trace, "completed"), TRUE)
    /\ UNCHANGED <<exit_how, rel, receiving, audio_data, turn, turn_seq,
                   user_message>>
    /\ UNCHANGED <<envVars, fileVars, leaveVars>>
    /\ SessFrame

\* A poll of the wait loop finds waited at its ceiling while the client
\* still plays (line 336): return True as well.
PlayTimeout ==
    /\ ppc = "play"
    /\ ~cancel_req
    /\ playing
    /\ ProcessReturn(Append(trace, "timeout"), TRUE)
    /\ UNCHANGED <<exit_how, rel, receiving, audio_data, turn, turn_seq,
                   user_message>>
    /\ UNCHANGED <<envVars, fileVars, leaveVars>>
    /\ SessFrame

\* The player ends: _on_playback_done deletes the file (lines 475-498).
PlaybackEnds ==
    /\ playing
    /\ playing' = FALSE
    /\ files' = OnPlaybackDone(files, play_path)
    /\ play_path' = 0
    /\ UNCHANGED <<connected, vc_open, receiving, log_channel, pc, rel,
                   exit_how, silent, audio_data, turn, turn_seq, user_message,
                   next_path, trace>>
    /\ UNCHANGED <<procVars, leaveVars>>
    /\ SessFrame

\* AudioSink.write: a packet of speaker u arrives (lines 39-50).
Write(u) ==
    /\ receiving
    /\ audio_data' = Put(audio_data, u, Tag)
    /\ silent' = FALSE
    /\ UNCHANGED <<connected, vc_open, receiving, log_channel, pc, rel,
                   exit_how, turn, turn_seq, user_message, playing, play_path,
                   trace>>
    /\ UNCHANGED <<procVars, fileVars, leaveVars>>
    /\ SessFrame

\* Time passes without a packet until the duration is reached.
SilenceElapses ==
    /\ receiving
    /\ ~silent
    /\ silent' = TRUE
    /\ UNCHANGED <<connected, vc_open, receiving, log_channel, pc, rel,
                   exit_how, audio_data, turn, turn_seq, user_message, playing,
                   play_path, trace>>
    /\ UNCHANGED <<procVars, fileVars, leaveVars>>
    /\ SessFrame

\* VoiceClient.disconnect has run on the client the task holds: the
\* reception and a playback end, the player's after callback deletes the
\* file it was given.
Closed ==
    /\ vc_open' = FALSE
    /\ receiving' = FALSE
    /\ playing' = FALSE
    /\ files' = IF playing THEN OnPlaybackDone(files, play_path) ELSE files
    /\ play_path' = 0

\* A second join of the room disconnects the client the task holds before
\* it connects a new one (join_voice_channel, lines 140-141); the entry of
\* self.voice_clients stays.
Disconnect ==
    /\ vc_open
    /\ pc # "done"
    /\ leave_pc = "none"
    /\ Closed
    /\ UNCHANGED <<connected, log_channel, pc, rel, exit_how, silent,
                   audio_data, turn, turn_seq, user_message, next_path, trace>>
    /\ UNCHANGED <<procVars, leaveVars>>
    /\ SessFrame

\* A leave_voice_channel that was suspended in disconnect() since before
\* this session's join resumes: del self.voice_clients[guild_id] (line 168)
\* removes the entry of the client the task holds, which stays connected.
LeaveDeletes ==
    /\ connected
    /\ pc # "done"
    /\ leave_pc = "none"
    /\ connected' = FALSE
    /\ UNCHANGED <<vc_open, receiving, log_channel, pc, rel, exit_how, silent,
                   audio_data, turn, turn_seq, user_message, playing,
                   play_path, trace>>
    /\ UNCHANGED <<procVars, fileVars, leaveVars>>
    /\ SessFrame

\* The stage the task is suspended in.
Stage == IF ppc # "none" THEN ppc ELSE pc

\* leave_voice up to its first suspension: the task is cancelled and its
\* entry of self.voice_loops deleted (discord_client.py:231-233), then
\* leave_voice_channel is called and, when self.voice_clients holds the
\* guild, calls disconnect() on its client (voice_handler.py:165-166).
Cancel ==
    /\ pc # "done"
    /\ leave_pc = "none"
    /\ cancel_req' = TRUE
    /\ cancel_at' = [stage |-> Stage, registered |-> connected]
    /\ leave_pc' = IF connected THEN "disconnect" ELSE "done"
    /\ rel' = IF connected THEN Append(rel, "disconnect") ELSE rel
    /\ UNCHANGED <<connected, vc_open, receiving, log_channel, pc, exit_how,
                   silent, audio_data, turn, turn_seq, user_message, playing,
                   play_path, trace, orphan_synth>>
    /\ UNCHANGED <<procVars, fileVars>>
    /\ SessFrame

\* disconnect() returns to leave_voice_channel, which deletes the entry of
\* self.voice_clients (lines 166-169), or raises, which the handler of line
\* 175 turns into False: the entry stays and the client stays as it is.
\* disconnect() waits for the network, and the event loop runs the callbacks
\* it holds in the order they were scheduled: the wake-up of the cancelled
\* task, scheduled by cancel(), has run by then.
LeaveReturns(ok) ==
    /\ leave_pc = "disconnect"
    /\ ~cancel_req
    /\ leave_pc' = "done"
    /\ IF ok
       THEN /\ Closed
            /\ connected' = FALSE
       ELSE UNCHANGED <<connected, vc_open, receiving, playing, play_path,
                        files>>
    /\ UNCHANGED <<log_channel, pc, rel, exit_how, silent, audio_data, turn,
                   turn_seq, user_message, next_path, trace, cancel_req,
                   cancel_at, orphan_synth>>
    /\ UNCHANGED procVars
    /\ SessFrame

\* A handler that takes CancelledError for a failed iteration.
AfterCancelledLoops == "err_sleep"

\* except asyncio.CancelledError: break (lines 432-434), out of the while
\* loop and into the finally block.
AfterCancelled == "finally"

\* The task resumes with CancelledError at the await it is suspended on:
\* except CancelledError of line 432 (or, from the sleep of line 439, the
\* propagation out of the handler), then the finally block.  A task that
\* never ran ends without running.  The synthesize call the task awaited
\* goes on in its executor thread (tts_kyutai.py:105-109).
Cancelled ==
    /\ cancel_req
    /\ pc # "done"
    /\ cancel_req' = FALSE
    /\ IF pc = "start"
       THEN /\ pc' = "done"
            /\ exit_how' = "cancelled"
            /\ UNCHANGED <<rel, receiving, audio_data, turn, turn_seq,
                           user_message, trace>>
       ELSE IF AfterCancelled = "finally"
       THEN Finally("cancelled")
       ELSE /\ pc' = AfterCancelled
            /\ UNCHANGED <<exit_how, rel, receiving, audio_data, turn,
                           turn_seq, user_message, trace>>
    /\ orphan_synth' = (ppc = "tts")
    /\ ppc' = "none"
    /\ p_turn' = {}
    /\ response' = <<>>
    /\ audio_path' = 0
    /\ UNCHANGED <<envVars, fileVars, cancel_at, leave_pc>>
    /\ SessFrame

\* The synthesize call whose awaiter was cancelled ends in its thread: with
\* made it has written its file (tts_kyutai.py:52-93), which nothing holds
\* the path of.
OrphanSynthEnds(made) ==
    /\ orphan_synth
    /\ orphan_synth' = FALSE
    /\ IF made
       THEN /\ next_path <= MaxFiles
            /\ files' = files \cup {next_path}
            /\ next_path' = next_path + 1
       ELSE UNCHANGED fileVars
    /\ UNCHANGED <<connected, vc_open, receiving, log_channel, pc, rel,
                   exit_how, silent, audio_data, turn, turn_seq, user_message,
                   playing, play_path, trace, cancel_req, cancel_at, leave_pc>>
    /\ UNCHANGED procVars
    /\ SessFrame

NextSess ==
    \/ TaskStart
    \/ RecordSilence
    \/ RecordCeiling
    \/ \E p \in {"idle", "discard", "yield", "err_sleep"} : NextIteration(p)
    \/ \E text \in Texts : SttReturn(text)
    \/ SttFault
    \/ \E ok \in BOOLEAN : LogUserReturn(ok)
    \/ \E r \in Responses : LlmReturn(r)
    \/ StageFault
    \/ TtsNone
    \/ TtsFile
    \/ \E ok \in BOOLEAN : LogBotReturn(ok)
    \/ PlayDone
    \/ PlayTimeout
    \/ PlaybackEnds
    \/ \E u \in Speakers : Write(u)
    \/ SilenceElapses
    \/ Disconnect
    \/ LeaveDeletes
    \/ Cancel
    \/ \E ok \in BOOLEAN : LeaveReturns(ok)
    \/ Cancelled
    \/ \E made \in BOOLEAN : OrphanSynthEnds(made)

(***************************************************************************)
(*                    Properties of the session loop                       *)
(***************************************************************************)

\* The pipeline runs in progress: the Turn the loop holds between its
\* extraction and the end of its iteration's work, and the Turn a
\* process_voice_message coroutine that has not returned was called with.
RunsInProgress ==
    (IF pc \in {"stt", "log_user", "process"} THEN {turn.id} ELSE {})
        \cup (IF ppc # "none" THEN p_turn ELSE {})

\* C1: pipeline runs of a session never overlap.  At most one run is in
\* progress; while process_voice_message has not returned the loop is
\* suspended on it, for the Turn it extracted last; and whenever the loop
\* is in record_audio_from_channel or about to call it, no run is in
\* progress.
C1_NoOverlappingRuns ==
    /\ Cardinality(RunsInProgress) <= 1
    /\ ppc # "none" => (pc = "process" /\ turn.valid /\ p_turn = {turn.id})
    /\ pc \in {"start", "record", "idle", "discard", "yield", "err_sleep", "done"}
          => RunsInProgress = {}

\* The second Turn of a session is being played, its run awaited.
C1_Witness ==
    /\ pc = "process"
    /\ ppc = "play"
    /\ turn.valid
    /\ turn.id = 0
    /\ p_turn = {0}

\* C7: no Turn contains audio that was written while an earlier Turn was
\* being processed.
C7_ProcessingAudioDropped ==
    turn.valid => "P" \notin Range(turn.audio)

\* The recognized texts the filter is to discard: the empty text, the
\* recognizer's sentinel, and the texts that are empty once whitespace and
\* the filler dots are stripped.
IsNoise(s) ==
    \/ s = <<>>
    \/ s = NoSpeech
    \/ (s # Unbound /\ \A i \in 1..Len(s) : s[i] \in Whitespace \cup {"."})

\* C8: a Turn whose recognized text is empty, the sentinel, or empty after
\* stripping whitespace and filler punctuation never reaches
\* generate_response_async: the work done for the Turn holds no call of it
\* and no process_voice_message run exists.
C8_NoiseNeverReachesLlm ==
    IsNoise(user_message) => ("llm" \notin Range(trace) /\ ppc = "none")

\* A text of blanks and a dot was recognized and discarded.
C8_Witness ==
    /\ pc = "discard"
    /\ turn.valid
    /\ user_message = <<" ", ".", " ">>
    /\ trace = <<>>

\* C9: a Turn the filter discards ends silently.  Once its text is known,
\* the loop is in the pause before the next iteration, nothing was posted,
\* called, created or raised for the Turn, and it holds no audio path.
C9_DiscardIsSilent ==
    (turn.valid /\ IsNoise(user_message))
        => /\ pc = "discard"
           /\ trace = <<>>
           /\ ppc = "none"
           /\ audio_path = 0
           /\ exit_how = "none"

\* The recognizer's sentinel was discarded in a session that has a log
\* channel and has created no file.
C9_Witness ==
    /\ pc = "discard"
    /\ turn.valid
    /\ user_message = NoSpeech
    /\ log_channel
    /\ files = {}
    /\ next_path = 1

\* What the run of process_voice_message did after the reply was tested.
AfterReply == {"tts", "tts_none", "file", "log_bot", "log_bot_failed", "play",
               "play_error", "completed", "timeout"}

\* C11: a run whose language model returned an empty reply or a bracketed
\* sentinel is aborted.  The synthesizer is not called, no playback is
\* started, and the run has returned False to the loop without raising:
\* the loop is at the sleep that ends the iteration.
C11_InvalidReplyAborts ==
    (Range(trace) \cap {"reply_empty", "reply_sentinel"} # {})
        => /\ Range(trace) \cap AfterReply = {}
           /\ "fault" \notin Range(trace)
           /\ trace[Len(trace)] = "return_false"
           /\ ppc = "none"
           /\ pc = "yield"
           /\ exit_how = "none"

\* The language model answered the first Turn with its sentinel.
C11_Witness ==
    /\ pc = "yield"
    /\ turn.valid
    /\ Len(trace) >= 2
    /\ SubSeq(trace, Len(trace) - 1, Len(trace)) = <<"reply_sentinel", "return_false">>
    /\ "llm" \in Range(trace)

\* C12: when the synthesizer returns no audio, voice_client.play is never
\* invoked for the Turn, nothing is raised into the loop, and the session
\* goes on to its next listening phase: the run has returned False and the
\* loop is at the sleep that ends the iteration.
C12_NoAudioNoPlayback ==
    "tts_none" \in Range(trace)
        => /\ Range(trace) \cap {"log_bot", "log_bot_failed", "play",
                                  "play_error", "completed", "timeout",
                                  "fault"} = {}
           /\ trace[Len(trace)] = "return_false"
           /\ ppc = "none"
           /\ pc = "yield"
           /\ exit_how = "none"

\* The synthesizer returned None for a reply the language model gave.
C12_Witness ==
    /\ pc = "yield"
    /\ turn.valid
    /\ Len(trace) >= 4
    /\ SubSeq(trace, Len(trace) - 3, Len(trace))
           = <<"reply_text", "tts", "tts_none", "return_false">>

\* C13: the reply text is posted to the text log only on playback
\* success: every post of a reply comes after the playback of the Turn has
\* completed, so no reply is posted for a Turn whose playback failed or
\* never started.
C13_ReplyLoggedAfterPlayback ==
    \A i \in 1..Len(trace) :
        trace[i] = "log_bot"
            => \E j \in 1..(i - 1) : trace[j] = "completed"

\* How many times e occurs in s.
Count(s, e) == Cardinality({i \in 1..Len(s) : s[i] = e})

C15_FileDeletedBeforeReturn ==
    [][(ppc \in {"log_bot", "play"} /\ ppc' = "none" /\ pc' = "yield")
          => audio_path \notin files']_vars

\* Nothing that could still delete a file is left to run: the task has
\* ended, leave_voice is through, no playback and no synthesize call is in
\* progress.
Quiescent ==
    /\ pc = "done"
    /\ leave_pc = "done"
    /\ ~playing
    /\ ~orphan_synth

\* C16: cancelling the session while a run is in its Synthesize or Play
\* stage leaves no temporary audio file behind: once everything has come
\* to rest, every file the synthesizer produced for the cancelled Turn has
\* been deleted.
C16_CancelLeavesNoFile ==
    (cancel_at.stage \in {"tts", "play"} /\ cancel_at.registered /\ Quiescent)
        => files = {}

C18_ReleaseOrder ==
    cancel_at.stage \notin {"none", "start"}
        => \A i \in 1..Len(rel) :
              rel[i] = "disconnect"
                  => /\ \E j \in 1..(i - 1) : rel[j] = "stop_listening"
                     /\ \E k \in 1..(i - 1) : rel[k] = "cleanup"

\* C19: on every exit path of the task (loop exit, cancellation at any
\* stage, fatal error) all three resources are released by the time the
\* session has ended, the task over and no leave_voice in progress: the
\* reception is stopped, the buffers are cleared and the voice connection
\* is disconnected.
C19_AllReleasedAtExit ==
    (pc = "done" /\ leave_pc # "disconnect")
        => /\ ~receiving
           /\ audio_data = <<>>
           /\ ~vc_open

\* What the iteration did after its i-th step.
After(i) == SubSeq(trace, i + 1, Len(trace))

\* The Turn was abandoned at step i of the iteration: nothing but the
\* return of the run follows, and the task is at the sleep that ends the
\* iteration, still running.
AbandonedAt(i) ==
    /\ After(i) \in {<<>>, <<"return_false">>}
    /\ pc \in {"err_sleep", "yield"}
    /\ ppc = "none"
    /\ exit_how = "none"

\* C20 as stated: a fault raised in any stage of a run (recognition, the
\* text log, inference, synthesis or playback) is caught, the Turn is
\* abandoned, and the task is still running and returns to listening.
C20_AnyFaultAbandonsTurn ==
    \A i \in 1..Len(trace) :
        trace[i] \in {"fault", "play_error", "log_user_failed", "log_bot_failed"}
            => AbandonedAt(i)

\* C20, amended: a fault of a Turn never ends the session.  A fault in
\* recognition, inference, synthesis or playback is caught, the Turn is
\* abandoned, and the task is still running and returns to listening; a
\* fault of the text log is swallowed where it occurs and the same Turn
\* proceeds, to the call of process_voice_message after the transcript
\* and to the playback after the reply.
C20_FaultNeverEndsSession ==
    \A i \in 1..Len(trace) :
        /\ trace[i] \in {"fault", "play_error"} => AbandonedAt(i)
        /\ trace[i] = "log_user_failed"
              => /\ i < Len(trace)
                 /\ trace[i + 1] \in {"llm", "return_false"}
                 /\ pc \in {"process", "yield"}
                 /\ exit_how = "none"
        /\ trace[i] = "log_bot_failed"
              => /\ i < Len(trace)
                 /\ trace[i + 1] \in {"play", "play_error"}
                 /\ pc \in {"process", "yield"}
                 /\ exit_how = "none"

\* The post of the transcript failed, the Turn went on, and the
\* synthesizer raised: the run has returned and the loop goes on.
C20_Witness ==
    /\ pc = "yield"
    /\ turn.valid
    /\ trace = <<"log_user_failed", "llm", "reply_text", "tts", "fault",
                 "return_false">>

\* C24: once the task is cancelled, the cancellation is what its next
\* step observes, at the await it is suspended on.  Until that step the
\* task stays in the stage it was cancelled in, starts no further stage
\* and extracts no Turn; the step itself ends the task as cancelled.
C24_CancelGoesToStopped ==
    /\ [](cancel_at.stage # "none"
            => IF cancel_req
               THEN pc # "done" /\ Stage = cancel_at.stage
               ELSE pc = "done" /\ exit_how = "cancelled" /\ ppc = "none")
    /\ [][cancel_req
            => \/ /\ cancel_req'
                  /\ UNCHANGED <<pc, ppc, turn, turn_seq, user_message,
                                 response, audio_path, trace>>
               \/ /\ ~cancel_req'
                  /\ pc' = "done"
                  /\ exit_how' = "cancelled"]_vars

\* A session cancelled while its run awaited the language model has ended.
C24_Witness ==
    /\ cancel_at = [stage |-> "llm", registered |-> TRUE]
    /\ ~cancel_req
    /\ pc = "done"
    /\ exit_how = "cancelled"
    /\ leave_pc = "done"

\* C28: a failure of the text log does not reach the pipeline.  When the
\* post of the user's transcript raises, the step goes on into
\* process_voice_message with the same Turn, to the call of the language
\* model while the room is registered; when the post of the reply raises,
\* the step goes on to voice_client.play with the same file, which starts
\* the playback unless the client cannot play.
C28_LogFaultSwallowed ==
    [][/\ (/\ pc = "log_user"
           /\ Len(trace') > Len(trace)
           /\ trace'[Len(trace) + 1] = "log_user_failed")
          => /\ turn' = turn
             /\ exit_how' = "none"
             /\ IF connected
                THEN ppc' = "llm" /\ p_turn' = {turn.id} /\ pc' = AwaitPc
                ELSE pc' = "yield" /\ trace'[Len(trace')] = "return_false"
       /\ (/\ ppc = "log_bot"
           /\ Len(trace') > Len(trace)
           /\ trace'[Len(trace) + 1] = "log_bot_failed")
          => /\ turn' = turn
             /\ exit_how' = "none"
             /\ IF playing \/ ~vc_open
                THEN trace'[Len(trace) + 2] = "play_error"
                ELSE /\ ppc' = "play"
                     /\ playing'
                     /\ play_path' = audio_path
                     /\ p_turn' = p_turn]_vars

\* Both posts of a Turn failed and its reply is being played.
C28_Witness ==
    /\ ppc = "play"
    /\ playing
    /\ \E i, j \in DOMAIN trace :
          /\ i < j
          /\ j < Len(trace)
          /\ trace[i] = "log_user_failed"
          /\ trace[i + 1] = "llm"
          /\ trace[j] = "log_bot_failed"
          /\ trace[j + 1] = "play"

\* The two ends of the post of the user's transcript.
LogUserEvents == {"log_user", "log_user_failed"}

\* C38: for every Turn whose recognized text passes the filter, the user's
\* text is posted to the text log, when the task has a log channel, exactly
\* once and before the language model is called, whatever becomes of
\* inference, synthesis and playback afterwards: the post is the first
\* thing the iteration does and it does it once, nothing of
\* process_voice_message comes before it, and without a log channel there
\* is no post.
C38_TranscriptBeforeInference ==
    /\ [](/\ \A i \in DOMAIN trace :
                trace[i] \in LogUserEvents => (i = 1 /\ log_channel)
          /\ (log_channel /\ trace # <<>> /\ user_message # Unbound)
                => trace[1] \in LogUserEvents
          /\ pc = "log_user"
                => (trace = <<>> /\ log_channel /\ ~Discards(user_message)))
    /\ [][(/\ pc = "stt"
           /\ user_message' # Unbound
           /\ ~Discards(user_message')
           /\ log_channel)
             => pc' = "log_user"]_vars

\* The transcript of a Turn was posted, the model was called after it, and
\* the Turn then failed: no reply was played.
C38_Witness ==
    /\ log_channel
    /\ Len(trace) >= 3
    /\ trace[1] = "log_user"
    /\ trace[2] = "llm"
    /\ trace[Len(trace)] = "return_false"
    /\ "play" \notin Range(trace)

\* C26: the outcome of a playback tells its exits apart; a playback that
\* was still running at the ceiling of the wait is never reported with the
\* value that reports a completed one (True, line 341).
C26_TimedOutNotCompleted ==
    \A i \in DOMAIN trace :
        trace[i] = "timeout"
            => (i = Len(trace) \/ trace[i + 1] # "return_true")

(***************************************************************************)
(*        MerithBot.join_voice and leave_voice over several rooms          *)
(*                                                                         *)
(* Every command is a handler of its own on the event loop, one action per *)
(* stretch of code between two awaits.  A task of full_voice_loop is       *)
(* reduced to its life cycle: created, running from its first step on,     *)
(* done.  task.cancel() resumes the task with CancelledError at the await  *)
(* it is suspended on, and the loop ends there (voice_handler.py:432-453). *)
(* The event loop runs its callbacks in the order they were scheduled, so  *)
(* the wake-up of a cancelled task runs before the first step of a task    *)
(* created after the cancel.                                               *)
(***************************************************************************)

Rooms == {"g1", "g2"}

\* Most commands issued in one behaviour.
MaxCmds == 3

Tasks == 1..Len(tasks)
Cmds == 1..Len(cmds)

InitMgr ==
    /\ voice_loops = [g \in Rooms |-> 0]
    /\ voice_clients = {}
    /\ vc_live = {}
    /\ vc_gen = [g \in Rooms |-> 0]
    /\ tasks = <<>>
    /\ cmds = <<>>

MgrFrame ==
    UNCHANGED <<llmVars, epVars, sessVars, roomVars, playVars, auxVars>>

\* join_voice creates a task whatever the map holds.
NotRegisteredUnchecked(g) == TRUE

\* if guild_id not in self.voice_loops (discord_client.py:211)
NotRegistered(g) == voice_loops[g] = 0

\* /join_mai in room g, up to the first await: the reply to a user who is
\* in no voice channel (lines 193-195), else join_voice_channel up to the
\* disconnect of the room's existing client or the connect (199, 140-144).
JoinIssue(g, in_voice) ==
    /\ Len(cmds) < MaxCmds
    /\ cmds' = Append(cmds,
           [kind |-> "join", room |-> g,
            at |-> IF ~in_voice THEN "done"
                   ELSE IF g \in voice_clients THEN "disconnect"
                   ELSE "connect",
            res |-> IF ~in_voice THEN "failed" ELSE "pending",
            task |-> 0])
    /\ UNCHANGED <<voice_loops, voice_clients, vc_live, vc_gen, tasks>>
    /\ MgrFrame

\* The disconnect of line 141 returns, then the connect is awaited; or it
\* raises, and join_voice_channel returns False (lines 150-152).
JoinDisconnected(i, ok) ==
    /\ i \in Cmds
    /\ cmds[i].kind = "join"
    /\ cmds[i].at = "disconnect"
    /\ cmds' = [cmds EXCEPT ![i].at = IF ok THEN "connect" ELSE "done",
                             ![i].res = IF ok THEN "pending" ELSE "failed"]
    /\ vc_live' = IF ok THEN vc_live \ {cmds[i].room} ELSE vc_live
    /\ UNCHANGED <<voice_loops, voice_clients, vc_gen, tasks>>
    /\ MgrFrame

\* channel.connect returns and the client is stored (lines 144-148), then
\* the reply is awaited (discord_client.py:202); or it raises.
JoinConnected(i, ok) ==
    /\ i \in Cmds
    /\ cmds[i].kind = "join"
    /\ cmds[i].at = "connect"
    /\ cmds' = [cmds EXCEPT ![i].at = IF ok THEN "send" ELSE "done",
                             ![i].res = IF ok THEN "pending" ELSE "failed"]
    /\ voice_clients' = IF ok THEN voice_clients \cup {cmds[i].room}
                        ELSE voice_clients
    /\ vc_live' = IF ok THEN vc_live \cup {cmds[i].room} ELSE vc_live
    /\ vc_gen' = IF ok THEN [vc_gen EXCEPT ![cmds[i].room] = @ + 1] ELSE vc_gen
    /\ UNCHANGED <<voice_loops, tasks>>
    /\ MgrFrame

\* The reply is sent; the test of the map, create_task and the registration
\* (discord_client.py:210-215) run without a suspension.  A reply that
\* raises leaves through the handler of line 219.
JoinSent(i, ok) ==
    /\ i \in Cmds
    /\ cmds[i].kind = "join"
    /\ cmds[i].at = "send"
    /\ cmds' = [cmds EXCEPT ![i].at = "done",
                             ![i].res = IF ok THEN "ok" ELSE "failed"]
    /\ IF ok /\ NotRegistered(cmds[i].room)
       THEN /\ tasks' = Append(tasks,
                   [room |-> cmds[i].room, st |-> "created", cancel |-> FALSE,
                    how |-> "none", prev |-> voice_loops[cmds[i].room],
                    client |-> 0])
            /\ voice_loops' = [voice_loops EXCEPT ![cmds[i].room] = Len(tasks) + 1]
       ELSE UNCHANGED <<voice_loops, tasks>>
    /\ UNCHANGED <<voice_clients, vc_live, vc_gen>>
    /\ MgrFrame

\* /leave_mai in room g, up to the first await: the registered task is
\* cancelled and unregistered (discord_client.py:231-233), then
\* leave_voice_channel up to the disconnect (voice_handler.py:166-167).
\* cancel() of a task that is done does nothing.
LeaveIssue(g) ==
    /\ Len(cmds) < MaxCmds
    /\ tasks' = IF voice_loops[g] # 0 /\ tasks[voice_loops[g]].st # "done"
                THEN [tasks EXCEPT ![voice_loops[g]].cancel = TRUE]
                ELSE tasks
    /\ voice_loops' = [voice_loops EXCEPT ![g] = 0]
    /\ cmds' = Append(cmds,
           [kind |-> "leave", room |-> g,
            at |-> IF g \in voice_clients THEN "disconnect" ELSE "done",
            res |-> IF g \in voice_clients THEN "pending" ELSE "failed",
            task |-> voice_loops[g]])
    /\ UNCHANGED <<voice_clients, vc_live, vc_gen>>
    /\ MgrFrame

\* The disconnect of line 167 returns and the client is deleted from the
\* dict (168; the KeyError of a second delete is caught at 175); or it
\* raises, and the client stays.
LeaveDisconnected(i, ok) ==
    /\ i \in Cmds
    /\ cmds[i].kind = "leave"
    /\ cmds[i].at = "disconnect"
    /\ cmds' = [cmds EXCEPT ![i].at = "done",
                             ![i].res = IF ok /\ cmds[i].room \in voice_clients
                                        THEN "ok" ELSE "failed"]
    /\ voice_clients' = IF ok THEN voice_clients \ {cmds[i].room}
                        ELSE voice_clients
    /\ vc_live' = IF ok THEN vc_live \ {cmds[i].room} ELSE vc_live
    /\ UNCHANGED <<voice_loops, vc_gen, tasks>>
    /\ MgrFrame

\* The first step of a task (voice_handler.py:367-387).  It runs after the
\* wake-up of every task cancelled before it was created.  The KeyError of
\* line 368 or a listen that raises (377) ends the task.
TaskFirstStep(t, ok) ==
    /\ t \in Tasks
    /\ tasks[t].st = "created"
    /\ ~tasks[t].cancel
    /\ \A a \in Tasks :
          (a < t /\ tasks[a].room = tasks[t].room /\ tasks[a].st = "running")
              => ~tasks[a].cancel
    /\ tasks' = IF ok /\ tasks[t].room \in voice_clients
                THEN [tasks EXCEPT ![t].st = "running",
                                   ![t].client = vc_gen[tasks[t].room]]
                ELSE [tasks EXCEPT ![t].st = "done", ![t].how = "error"]
    /\ UNCHANGED <<voice_loops, voice_clients, vc_live, vc_gen, cmds>>
    /\ MgrFrame

\* The loop finds the guild gone from self.voice_clients (line 383) and
\* ends; the map keeps the task.
TaskExit(t) ==
    /\ t \in Tasks
    /\ tasks[t].st = "running"
    /\ ~tasks[t].cancel
    /\ tasks[t].room \notin voice_clients
    /\ tasks' = [tasks EXCEPT ![t].st = "done", ![t].how = "loop"]
    /\ UNCHANGED <<voice_loops, voice_clients, vc_live, vc_gen, cmds>>
    /\ MgrFrame

\* The cancellation is delivered: the task ends (lines 432-453), or never
\* runs when it had not started.
TaskCancelled(t) ==
    /\ t \in Tasks
    /\ tasks[t].st # "done"
    /\ tasks[t].cancel
    /\ tasks' = [tasks EXCEPT ![t].st = "done", ![t].cancel = FALSE,
                               ![t].how = "cancelled"]
    /\ UNCHANGED <<voice_loops, voice_clients, vc_live, vc_gen, cmds>>
    /\ MgrFrame

NextMgr ==
    \/ \E g \in Rooms, in_voice \in BOOLEAN : JoinIssue(g, in_voice)
    \/ \E i \in 1..MaxCmds, ok \in BOOLEAN : JoinDisconnected(i, ok)
    \/ \E i \in 1..MaxCmds, ok \in BOOLEAN : JoinConnected(i, ok)
    \/ \E i \in 1..MaxCmds, ok \in BOOLEAN : JoinSent(i, ok)
    \/ \E g \in Rooms : LeaveIssue(g)
    \/ \E i \in 1..MaxCmds, ok \in BOOLEAN : LeaveDisconnected(i, ok)
    \/ \E t \in 1..MaxCmds, ok \in BOOLEAN : TaskFirstStep(t, ok)
    \/ \E t \in 1..MaxCmds : TaskExit(t)
    \/ \E t \in 1..MaxCmds : TaskCancelled(t)

\* The tasks of room g that have started and have not ended.
Alive(g) == {t \in Tasks : tasks[t].room = g /\ tasks[t].st = "running"}

\* C2: at most one session per room.  The map holds for each room at most
\* one task, and that task is the room's; no task was created while the map
\* held a task for its room; at most one task of a room is running (started
\* and not ended); and a task that is not done and is no longer the one the
\* map holds has been cancelled and will end at its next step.
C2_OneSessionPerRoom ==
    /\ \A g \in Rooms :
          /\ voice_loops[g] \in Tasks \cup {0}
          /\ voice_loops[g] # 0 => tasks[voice_loops[g]].room = g
          /\ Cardinality(Alive(g)) <= 1
    /\ \A t \in Tasks :
          /\ tasks[t].prev = 0
          /\ (tasks[t].st # "done" /\ voice_loops[tasks[t].room] # t)
                => tasks[t].cancel

\* A join that waited for its reply while a leave cancelled the room's
\* running task has created the room's second task before the first one
\* has ended.
C2_Witness ==
    /\ Len(tasks) = 2
    /\ tasks[1].room = tasks[2].room
    /\ tasks[1].st = "running"
    /\ tasks[1].cancel
    /\ tasks[2].st = "created"
    /\ voice_loops[tasks[2].room] = 2

\* Command i is a join whose join_voice_channel returns False in this step
\* (the disconnect of the old client or the connect has raised), while no
\* other command of its room is under way.
JoinFailsAlone(i) ==
    /\ i \in 1..Len(cmds)
    /\ cmds[i].kind = "join"
    /\ cmds[i].at \in {"disconnect", "connect"}
    /\ cmds'[i].res = "failed"
    /\ \A j \in 1..Len(cmds) :
          (j # i /\ cmds[j].room = cmds[i].room) => cmds[j].at = "done"

\* C21: a failed join leaves no partial session behind.  When a join
\* reports failure, whatever the room's state was before, the room has no
\* registered voice client unless it is a connected one, and no task of
\* the room is left that has not ended or been cancelled unless the room
\* has a registered, connected client.
C21_FailedJoinLeavesNothing ==
    [][\A i \in 1..MaxCmds :
          JoinFailsAlone(i)
              => /\ cmds'[i].room \in voice_clients'
                      => cmds'[i].room \in vc_live'
                 /\ cmds'[i].room \notin vc_live'
                      => \A t \in 1..Len(tasks') :
                            tasks'[t].room = cmds'[i].room
                                => (tasks'[t].st = "done" \/ tasks'[t].cancel)]_vars

\* C22: a session is destroyed on fatal error.  A task that has ended for
\* a reason other than leave, by an error or by the exit of its loop, is no
\* longer the one self.voice_loops holds for its room, so that a later
\* join of the room passes the test of line 211 and starts a new task.
C22_EndedTaskUnregistered ==
    \A t \in Tasks :
        (tasks[t].st = "done" /\ tasks[t].how \in {"error", "loop"})
            => voice_loops[tasks[t].room] # t

\* Every command issued has returned, and none of their transport calls
\* or replies has raised, nor has a task ended on an error.
AllReturned ==
    /\ \A i \in Cmds : cmds[i].at = "done" /\ cmds[i].res = "ok"
    /\ \A t \in Tasks : tasks[t].how # "error"

\* C35: whatever the interleaving of the joins and leaves of a room, once
\* every command has returned (no call of theirs failing) the room has a registered task that has not
\* ended exactly if it has a registered voice client; and no task is
\* created for a room whose client has been removed.
C35_TaskIffConnection ==
    /\ [](AllReturned
            => \A g \in Rooms :
                  (voice_loops[g] # 0 /\ tasks[voice_loops[g]].st # "done")
                      <=> g \in voice_clients)
    /\ [][\A g \in Rooms :
            (voice_loops'[g] # voice_loops[g] /\ voice_loops'[g] # 0)
                => g \in voice_clients']_vars

\* C36: after a second join has replaced the client of a room whose task
\* is running, the task listens on the client the room has registered:
\* the client a running, uncancelled task of a registered room took at its
\* start (line 368) is the one self.voice_clients holds.
C36_ListensOnRegisteredClient ==
    \A t \in Tasks :
        (/\ tasks[t].st = "running"
         /\ ~tasks[t].cancel
         /\ voice_loops[tasks[t].room] = t
         /\ tasks[t].room \in vc_live)
            => tasks[t].client = vc_gen[tasks[t].room]

\* C37: when the disconnect of a leave fails, the leave reports failure
\* and the session is as it was before the command: the task the room had
\* registered is still registered and running, and the room's client is
\* still registered.
C37_FailedLeaveChangesNothing ==
    [][\A i \in 1..MaxCmds :
          (/\ i \in Cmds
           /\ cmds[i].kind = "leave"
           /\ cmds[i].at = "disconnect"
           /\ cmds'[i].at = "done"
           /\ cmds[i].room \in voice_clients'
           /\ cmds[i].task # 0)
              => /\ cmds'[i].res = "failed"
                 /\ voice_loops'[cmds[i].room] = cmds[i].task
                 /\ tasks'[cmds[i].task].st = "running"
                 /\ ~tasks'[cmds[i].task].cancel]_vars

(***************************************************************************)
(*            The sessions of several rooms on one VoiceHandler            *)
(*                                                                         *)
(* Each room's task of full_voice_loop is reduced to its phases; a sink's  *)
(* buffers to the set of rooms whose packets they hold, its last packet    *)
(* time to one bit.  What the rooms could share is what the code keys by   *)
(* guild_id (self.voice_clients, self.voice_loops) and the sink, which     *)
(* each task creates for itself.                                           *)
(***************************************************************************)

\* One sink for every task.
SinkOfShared(g) == "g1"

\* sink = AudioSink() (voice_handler.py:374): a local of the room's task,
\* with buffers and last_packet_time of its own (lines 34-37); the room's
\* client writes to the sink it was given (line 377).
SinkOf(g) == g

InitRooms ==
    /\ r_stage = [g \in Rooms |-> "none"]
    /\ r_sink = [g \in Rooms |-> {}]
    /\ r_silent = [g \in Rooms |-> FALSE]
    /\ r_turn = [g \in Rooms |-> {}]
    /\ r_loops = [g \in Rooms |-> FALSE]
    /\ r_clients = [g \in Rooms |-> "none"]
    /\ r_cancel = [g \in Rooms |-> FALSE]
    /\ actor = "none"

RoomsFrame ==
    UNCHANGED <<llmVars, epVars, sessVars, mgrVars, playVars, auxVars>>

\* /join_mai in room g: the client is connected and stored under the
\* guild's id (voice_handler.py:144-145), the task created and stored
\* under it (discord_client.py:211-215).
RJoin(g) ==
    /\ r_clients[g] = "none"
    /\ ~r_loops[g]
    /\ r_stage[g] \in {"none", "done"}
    /\ r_clients' = [r_clients EXCEPT ![g] = "live"]
    /\ r_loops' = [r_loops EXCEPT ![g] = TRUE]
    /\ r_stage' = [r_stage EXCEPT ![g] = "start"]
    /\ actor' = g
    /\ UNCHANGED <<r_sink, r_silent, r_turn, r_cancel>>
    /\ RoomsFrame

\* The first step of the room's task: the sink is created and given to the
\* room's client (lines 367-387).
RStart(g) ==
    /\ r_stage[g] = "start"
    /\ ~r_cancel[g]
    /\ r_sink' = [r_sink EXCEPT ![SinkOf(g)] = {}]
    /\ r_silent' = [r_silent EXCEPT ![SinkOf(g)] = FALSE]
    /\ r_stage' = [r_stage EXCEPT ![g] = "listening"]
    /\ actor' = g
    /\ UNCHANGED <<r_turn, r_loops, r_clients, r_cancel>>
    /\ RoomsFrame

\* AudioSink.write: a packet of a speaker of room g (lines 39-50).
RWrite(g) ==
    /\ r_stage[g] \in {"listening", "idle", "turn"}
    /\ r_sink' = [r_sink EXCEPT ![SinkOf(g)] = @ \cup {g}]
    /\ r_silent' = [r_silent EXCEPT ![SinkOf(g)] = FALSE]
    /\ actor' = g
    /\ UNCHANGED <<r_stage, r_turn, r_loops, r_clients, r_cancel>>
    /\ RoomsFrame

\* The last packet of room g's sink gets a silence timeout old.
RSilence(g) ==
    /\ r_stage[g] \in {"listening", "idle", "turn"}
    /\ ~r_silent[SinkOf(g)]
    /\ r_silent' = [r_silent EXCEPT ![SinkOf(g)] = TRUE]
    /\ actor' = g
    /\ UNCHANGED <<r_stage, r_sink, r_turn, r_loops, r_clients, r_cancel>>
    /\ RoomsFrame

\* record_audio_from_channel of room g leaves its loop on the silence
\* (lines 205, 214-246): None for an empty sink, else the Turn, and the
\* sink is cleared.
REndpoint(g) ==
    /\ r_stage[g] = "listening"
    /\ ~r_cancel[g]
    /\ r_silent[SinkOf(g)]
    /\ IF r_sink[SinkOf(g)] = {}
       THEN /\ r_stage' = [r_stage EXCEPT ![g] = "idle"]
            /\ UNCHANGED <<r_sink, r_turn>>
       ELSE /\ r_stage' = [r_stage EXCEPT ![g] = "turn"]
            /\ r_turn' = [r_turn EXCEPT ![g] = r_sink[SinkOf(g)]]
            /\ r_sink' = [r_sink EXCEPT ![SinkOf(g)] = {}]
    /\ actor' = g
    /\ UNCHANGED <<r_silent, r_loops, r_clients, r_cancel>>
    /\ RoomsFrame

\* record_audio_from_channel of room g returns None at its ceiling (lines
\* 211-212).
RCeiling(g) ==
    /\ r_stage[g] = "listening"
    /\ ~r_cancel[g]
    /\ r_stage' = [r_stage EXCEPT ![g] = "idle"]
    /\ actor' = g
    /\ UNCHANGED <<r_sink, r_silent, r_turn, r_loops, r_clients, r_cancel>>
    /\ RoomsFrame

\* The pause of line 391 is over: the next call of
\* record_audio_from_channel.
RIdleWake(g) ==
    /\ r_stage[g] = "idle"
    /\ ~r_cancel[g]
    /\ r_stage' = [r_stage EXCEPT ![g] = "listening"]
    /\ actor' = g
    /\ UNCHANGED <<r_sink, r_silent, r_turn, r_loops, r_clients, r_cancel>>
    /\ RoomsFrame

\* The work on room g's Turn ends, with a reply played or with a failure
\* of a stage (lines 394-439): the next iteration.
RTurnDone(g) ==
    /\ r_stage[g] = "turn"
    /\ ~r_cancel[g]
    /\ r_stage' = [r_stage EXCEPT ![g] = "listening"]
    /\ r_turn' = [r_turn EXCEPT ![g] = {}]
    /\ actor' = g
    /\ UNCHANGED <<r_sink, r_silent, r_loops, r_clients, r_cancel>>
    /\ RoomsFrame

\* /leave_mai in room g up to its suspension in disconnect(): the room's
\* task is cancelled and its entry deleted (discord_client.py:231-233).
RLeave(g) ==
    /\ r_loops[g]
    /\ r_clients[g] = "live"
    /\ r_loops' = [r_loops EXCEPT ![g] = FALSE]
    /\ r_cancel' = [r_cancel EXCEPT ![g] = TRUE]
    /\ r_clients' = [r_clients EXCEPT ![g] = "closing"]
    /\ actor' = g
    /\ UNCHANGED <<r_stage, r_sink, r_silent, r_turn>>
    /\ RoomsFrame

\* The cancelled task of room g runs: the finally block clears the sink
\* the task created (voice_handler.py:445-453).
RCancelled(g) ==
    /\ r_cancel[g]
    /\ r_cancel' = [r_cancel EXCEPT ![g] = FALSE]
    /\ r_stage' = [r_stage EXCEPT ![g] = "done"]
    /\ r_sink' = IF r_stage[g] = "start" THEN r_sink
                 ELSE [r_sink EXCEPT ![SinkOf(g)] = {}]
    /\ r_turn' = [r_turn EXCEPT ![g] = {}]
    /\ actor' = g
    /\ UNCHANGED <<r_silent, r_loops, r_clients>>
    /\ RoomsFrame

\* disconnect() of room g's client returns and the room's entry is deleted
\* (voice_handler.py:166-168).
RLeft(g) ==
    /\ r_clients[g] = "closing"
    /\ ~r_cancel[g]
    /\ r_clients' = [r_clients EXCEPT ![g] = "none"]
    /\ actor' = g
    /\ UNCHANGED <<r_stage, r_sink, r_silent, r_turn, r_loops, r_cancel>>
    /\ RoomsFrame

NextRooms ==
    \/ \E g \in Rooms : RJoin(g)
    \/ \E g \in Rooms : RStart(g)
    \/ \E g \in Rooms : RWrite(g)
    \/ \E g \in Rooms : RSilence(g)
    \/ \E g \in Rooms : REndpoint(g)
    \/ \E g \in Rooms : RCeiling(g)
    \/ \E g \in Rooms : RIdleWake(g)
    \/ \E g \in Rooms : RTurnDone(g)
    \/ \E g \in Rooms : RLeave(g)
    \/ \E g \in Rooms : RCancelled(g)
    \/ \E g \in Rooms : RLeft(g)

\* C23: the sessions of different rooms are independent.  A Turn of a room
\* holds packets of that room only; and a step of one room (a packet, the
\* endpoint and its reset, the end of a pipeline run or its failure, a
\* join, a leave, the cancellation) leaves every other room's buffers,
\* last packet time, phase and registration as they are.
C23_RoomsIndependent ==
    /\ [](\A g \in Rooms : r_turn[g] \subseteq {g} /\ r_sink[g] \subseteq {g})
    /\ [][\A a \in Rooms :
            a # actor'
               => /\ r_sink'[a] = r_sink[a]
                  /\ r_silent'[a] = r_silent[a]
                  /\ r_stage'[a] = r_stage[a]
                  /\ r_turn'[a] = r_turn[a]
                  /\ r_loops'[a] = r_loops[a]
                  /\ r_clients'[a] = r_clients[a]]_vars

\* Room g1 works on a Turn of its own packets while room g2, which spoke
\* last, has audio buffered.
C23_Witness ==
    /\ r_stage["g1"] = "turn"
    /\ r_turn["g1"] = {"g1"}
    /\ r_sink["g1"] = {"g1"}
    /\ r_stage["g2"] = "listening"
    /\ r_sink["g2"] = {"g2"}
    /\ actor = "g2"

(***************************************************************************)
(*     The wait for the end of the playback in process_voice_message       *)
(*                                                                         *)
(* waited is counted in polls: waited += 0.1 after each sleep(0.1).  In    *)
(* double precision the sum of n times 0.1 is below 30 for n <= 299 and    *)
(* not below it for n = 300 (30.000000000000156), as with exact numbers.   *)
(***************************************************************************)

\* timeout = 30 (line 334), in polls of 100 ms.
PlaybackTimeout == 300

\* The polls explored.
MaxWaited == 302

\* A wait loop without a ceiling.
KeepsWaitingNoCeiling(p, w) == p

\* while voice_client.is_playing() and waited < timeout (line 336)
KeepsWaiting(p, w) == p /\ w < PlaybackTimeout

InitPlay ==
    /\ waited = 0
    /\ vc_playing = TRUE
    /\ wait_pc = "test"

PlayFrame ==
    UNCHANGED <<llmVars, epVars, sessVars, mgrVars, roomVars, auxVars>>

\* The test of the while loop (line 336): into the sleep of line 337, or
\* out of the loop to return True (line 341).
WaitTest ==
    /\ wait_pc = "test"
    /\ wait_pc' = IF KeepsWaiting(vc_playing, waited) THEN "sleep" ELSE "returned"
    /\ UNCHANGED <<waited, vc_playing>>
    /\ PlayFrame

\* The sleep is over: waited += 0.1 (line 338).
WaitSleepDone ==
    /\ wait_pc = "sleep"
    /\ waited < MaxWaited
    /\ waited' = waited + 1
    /\ wait_pc' = "test"
    /\ UNCHANGED vc_playing
    /\ PlayFrame

\* The player ends.
PlayerEnds ==
    /\ vc_playing
    /\ vc_playing' = FALSE
    /\ UNCHANGED <<waited, wait_pc>>
    /\ PlayFrame

\* process_voice_message has returned True; the loop sleeps 0 and calls
\* record_audio_from_channel again (lines 427-430, 387).
NextListening ==
    /\ wait_pc = "returned"
    /\ wait_pc' = "listening"
    /\ UNCHANGED <<waited, vc_playing>>
    /\ PlayFrame

NextPlay ==
    \/ WaitTest
    \/ WaitSleepDone
    \/ PlayerEnds
    \/ NextListening

\* C25: the wait for the end of the playback is bounded by the ceiling of
\* 30 s.  The loop never sleeps once it has waited 300 polls of 100 ms,
\* even while the client still plays, and never waits longer; the session
\* then goes on to its next listening phase.
C25_PlaybackWaitBounded ==
    /\ waited <= PlaybackTimeout
    /\ wait_pc = "sleep" => waited < PlaybackTimeout

\* The client still plays after 30 s and the session is listening again.
C25_Witness ==
    /\ wait_pc = "listening"
    /\ vc_playing
    /\ waited = PlaybackTimeout

(***************************************************************************)
(*          AudioSink and the extraction of a Turn from it                 *)
(*                                                                         *)
(* AudioSink.write is called by the receiver of the voice client, on a     *)
(* thread of its own, while record_audio_from_channel reads and resets the *)
(* sink on the event loop: the two run statement by statement in any       *)
(* order.  self.audio_data is a sequence of entries in insertion order, a  *)
(* buffer the sequence of its bytes, each byte tagged with the packet it   *)
(* came in; the scaling of the samples to floats (line 76) keeps their     *)
(* order and number and is not modelled.                                   *)
(***************************************************************************)

\* Most packets written in one behaviour.
MaxPackets == 3

NoPkt == [id |-> 0, user |-> "", pcm |-> <<>>]

\* user_id in self.audio_data
HasKey(d, u) == \E i \in 1..Len(d) : d[i].user = u

KeyIndex(d, u) == CHOOSE i \in 1..Len(d) : d[i].user = u

\* A reset that drops the buffer of the selected speaker only.
ResetSelected(d, u) == SelectSeq(d, LAMBDA e : e.user # u)

\* self.audio_data.clear() (line 60) and sink.audio_data = {} (line 238):
\* no entry is left, of the selected speaker u or of any other.
Reset(d, u) == <<>>

\* A loop that hands a result to the recognizer twice.
ConsumedAgain(calls, t) == calls \o <<t, t>>

\* audio_data = audio_result['audio'], then one call of
\* stt_engine.transcribe with it (lines 394-402).
Consumed(calls, t) == Append(calls, t)

InitSink ==
    /\ s_data = <<>>
    /\ w_pc = "idle"
    /\ w_pkt = NoPkt
    /\ n_pkt = 0
    /\ appended = {}
    /\ stamped = {}
    /\ w_failed = {}
    /\ e_pc = "listening"
    /\ e_user = ""
    /\ e_audio = <<>>
    /\ e_i = 0
    /\ e_size = 0
    /\ turns = <<>>
    /\ stt_calls = <<>>
    /\ resets = 0

wVars == <<w_pc, w_pkt, n_pkt, appended, stamped, w_failed>>
eVars == <<e_pc, e_user, e_audio, e_i, e_size, turns, stt_calls, resets>>

SinkFrame ==
    UNCHANGED <<llmVars, epVars, sessVars, mgrVars, roomVars, playVars,
                ttsVars, msgVars>>

\* The receiver calls write(user, data) with the next packet of speaker u,
\* whose data.pcm is empty or holds audio (lines 39-44).
WBegin(u, empty) ==
    /\ w_pc = "idle"
    /\ n_pkt < MaxPackets
    /\ n_pkt' = n_pkt + 1
    /\ w_pkt' = [id |-> n_pkt + 1, user |-> u,
                 pcm |-> IF empty THEN <<>> ELSE <<n_pkt + 1>>]
    /\ w_pc' = "check"
    /\ UNCHANGED <<s_data, appended, stamped, w_failed, eVars>>
    /\ SinkFrame

\* if user_id not in self.audio_data (line 46)
WCheck ==
    /\ w_pc = "check"
    /\ w_pc' = IF HasKey(s_data, w_pkt.user) THEN "append" ELSE "create"
    /\ UNCHANGED <<s_data, w_pkt, n_pkt, appended, stamped, w_failed, eVars>>
    /\ SinkFrame

\* self.audio_data[user_id] = io.BytesIO() (line 47)
WCreate ==
    /\ w_pc = "create"
    /\ s_data' = IF HasKey(s_data, w_pkt.user)
                 THEN [s_data EXCEPT ![KeyIndex(s_data, w_pkt.user)] =
                          [user |-> w_pkt.user, buf |-> <<>>, closed |-> FALSE]]
                 ELSE Append(s_data, [user |-> w_pkt.user, buf |-> <<>>,
                                      closed |-> FALSE])
    /\ w_pc' = "append"
    /\ UNCHANGED <<w_pkt, n_pkt, appended, stamped, w_failed, eVars>>
    /\ SinkFrame

\* self.audio_data[user_id].write(data.pcm) (line 49): KeyError when the
\* entry is gone, ValueError when its buffer is closed; the handler of line
\* 51 logs the error and the call returns.
WAppend ==
    /\ w_pc = "append"
    /\ IF HasKey(s_data, w_pkt.user)
          /\ ~s_data[KeyIndex(s_data, w_pkt.user)].closed
       THEN /\ s_data' = [s_data EXCEPT ![KeyIndex(s_data, w_pkt.user)].buf =
                             @ \o w_pkt.pcm]
            /\ appended' = appended \cup {w_pkt.id}
            /\ w_pc' = "stamp"
            /\ UNCHANGED <<w_pkt, w_failed>>
       ELSE /\ w_failed' = w_failed \cup {w_pkt.id}
            /\ w_pc' = "idle"
            /\ w_pkt' = NoPkt
            /\ UNCHANGED <<s_data, appended>>
    /\ UNCHANGED <<n_pkt, stamped, eVars>>
    /\ SinkFrame

\* self.last_packet_time = time.time() (line 50), and the call returns.
WStamp ==
    /\ w_pc = "stamp"
    /\ stamped' = stamped \cup {w_pkt.id}
    /\ w_pc' = "idle"
    /\ w_pkt' = NoPkt
    /\ UNCHANGED <<s_data, n_pkt, appended, w_failed, eVars>>
    /\ SinkFrame

\* The while loop of record_audio_from_channel has ended (line 205): None
\* for an empty dict (line 215), else the first key (line 219).
EEndpoint ==
    /\ e_pc = "listening"
    /\ IF s_data = <<>>
       THEN UNCHANGED <<e_pc, e_user>>
       ELSE /\ e_pc' = "snapshot"
            /\ e_user' = s_data[1].user
    /\ UNCHANGED <<s_data, e_audio, e_i, e_size, turns, stt_calls, resets,
                   wVars>>
    /\ SinkFrame

\* sink.get_audio_data(user_id) (lines 220, 62-82): the bytes of the
\* entry; None when there are none, and None through the handler of line
\* 78 when getvalue() raises on a closed buffer.  None ends the call (lines
\* 222-223); otherwise the loop of cleanup() starts (lines 237, 58).
ESnapshot ==
    /\ e_pc = "snapshot"
    /\ LET e == s_data[KeyIndex(s_data, e_user)] IN
       IF e.closed \/ e.buf = <<>>
       THEN /\ e_pc' = "listening"
            /\ e_user' = ""
            /\ UNCHANGED <<e_audio, e_i, e_size>>
       ELSE /\ e_pc' = "close"
            /\ e_audio' = e.buf
            /\ e_i' = 1
            /\ e_size' = Len(s_data)
            /\ UNCHANGED e_user
    /\ UNCHANGED <<s_data, turns, stt_calls, resets, wVars>>
    /\ SinkFrame

\* for buffer in self.audio_data.values(): buffer.close() (lines 58-59),
\* one iteration.  The iterator raises RuntimeError when the dict has
\* changed its size; the handler of line 248 turns it into None.
ECloseNext ==
    /\ e_pc = "close"
    /\ IF Len(s_data) # e_size
       THEN /\ e_pc' = "listening"
            /\ e_user' = ""
            /\ e_audio' = <<>>
            /\ e_i' = 0
            /\ e_size' = 0
            /\ UNCHANGED s_data
       ELSE IF e_i > e_size
       THEN /\ e_pc' = "clear"
            /\ UNCHANGED <<s_data, e_user, e_audio, e_i, e_size>>
       ELSE /\ s_data' = [s_data EXCEPT ![e_i].closed = TRUE]
            /\ e_i' = e_i + 1
            /\ UNCHANGED <<e_pc, e_user, e_audio, e_size>>
    /\ UNCHANGED <<turns, stt_calls, resets, wVars>>
    /\ SinkFrame

\* self.audio_data.clear() (line 60)
EClear ==
    /\ e_pc = "clear"
    /\ s_data' = Reset(s_data, e_user)
    /\ e_pc' = "assign"
    /\ UNCHANGED <<e_user, e_audio, e_i, e_size, turns, stt_calls, resets,
                   wVars>>
    /\ SinkFrame

\* sink.audio_data = {} and the return of the Turn (lines 238-246);
\* full_voice_loop passes its audio to the recognizer (lines 394-402).
EAssign ==
    /\ e_pc = "assign"
    /\ s_data' = Reset(s_data, e_user)
    /\ resets' = resets + 1
    /\ turns' = Append(turns, [user |-> e_user, audio |-> e_audio])
    /\ stt_calls' = Consumed(stt_calls, [user |-> e_user, audio |-> e_audio])
    /\ e_pc' = "stt"
    /\ e_user' = ""
    /\ e_audio' = <<>>
    /\ e_i' = 0
    /\ e_size' = 0
    /\ UNCHANGED wVars
    /\ SinkFrame

\* The iteration of full_voice_loop is over (lines 399-439): the next call
\* of record_audio_from_channel.
ETurnDone ==
    /\ e_pc = "stt"
    /\ e_pc' = "listening"
    /\ UNCHANGED <<s_data, e_user, e_audio, e_i, e_size, turns, stt_calls,
                   resets, wVars>>
    /\ SinkFrame

NextSink ==
    \/ \E u \in Speakers, empty \in BOOLEAN : WBegin(u, empty)
    \/ WCheck
    \/ WCreate
    \/ WAppend
    \/ WStamp
    \/ EEndpoint
    \/ ESnapshot
    \/ ECloseNext
    \/ EClear
    \/ EAssign
    \/ ETurnDone

\* The entries of d that hold audio, in the order of the dict.
WithAudio(d) == SelectSeq(d, LAMBDA e : e.buf # <<>>)

\* C31: the speaker selected at the endpoint is the first speaker with any
\* buffered audio: when the snapshot is taken while some speaker's buffer
\* holds audio (and no buffer was closed by a reset that failed), the call
\* goes on to emit a Turn, with exactly the bytes of the first speaker
\* whose buffer is not empty.
C31_FirstSpeakerWithAudio ==
    [][(/\ e_pc = "snapshot"
        /\ e_pc' # "snapshot"
        /\ WithAudio(s_data) # <<>>
        /\ \A i \in 1..Len(s_data) : ~s_data[i].closed)
          => /\ e_pc' = "close"
             /\ e_user' = WithAudio(s_data)[1].user
             /\ e_audio' = WithAudio(s_data)[1].buf]_vars

\* C32: each emitted Turn comes with exactly one reset of the sink, and
\* right after the Turn is emitted no speaker has an entry left, selected
\* for the Turn or not.
C32_ResetPerTurn ==
    /\ [](resets = Len(turns))
    /\ [][Len(turns') > Len(turns)
            => /\ Len(turns') = Len(turns) + 1
               /\ resets' = resets + 1
               /\ s_data' = <<>>]_vars

\* A Turn of one speaker was emitted while another speaker had audio
\* buffered, and the sink is empty.
C32_Witness ==
    /\ Len(turns) = 1
    /\ e_pc = "stt"
    /\ s_data = <<>>
    /\ \E n \in appended : n \notin Range(turns[1].audio)
    /\ w_failed = {}

\* C33: a Turn is consumed exactly once.  The recognizer was called with
\* every emitted Turn once, in their order, and no packet is part of the
\* audio of two Turns, however the writes fall between the snapshot and
\* the reset.
C33_TurnConsumedOnce ==
    /\ stt_calls = turns
    /\ \A i, j \in 1..Len(turns) :
          i # j => Range(turns[i].audio) \cap Range(turns[j].audio) = {}
    /\ \A i \in 1..Len(turns) :
          /\ turns[i].audio # <<>>
          /\ Range(turns[i].audio) \subseteq appended

\* Two Turns were emitted and consumed, and a packet written between the
\* snapshot and the reset of one of them is in neither.
C33_Witness ==
    /\ Len(turns) = 2
    /\ stt_calls = turns
    /\ e_pc = "listening"
    /\ \E n \in appended :
          n \notin Range(turns[1].audio) \cup Range(turns[2].audio)

\* C34: AudioSink.write never fails.  Every call that has returned has
\* appended its chunk to the buffer of its speaker and has set the last
\* packet time, also when it ran while the sink was being reset.
C34_WriteAlwaysLands ==
    \A n \in 1..n_pkt :
        (w_pkt.id # n) => (n \in appended /\ n \in stamped /\ n \notin w_failed)

(***************************************************************************)
(*            TTSEngine.synthesize and its temporary files                 *)
(***************************************************************************)

\* Calls of synthesize explored.
MaxCalls == 3

\* The call has not returned yet.
Pending == <<"pending">>

\* tempfile.NamedTemporaryFile(suffix='.mp3', delete=False) of call c
\* (lines 52-53): a fresh name per call.
Mp3Path(c) == <<c, "mp3">>

\* wav_path = mp3_path.replace('.mp3', '.wav') (line 54).
WavPath(c) == <<c, "wav">>

InitTts ==
    /\ t_pc = "idle"
    /\ t_call = 0
    /\ disk = {}
    /\ wav_bytes = 0
    /\ t_made = {}
    /\ t_ret = Pending

TtsFrame ==
    UNCHANGED <<llmVars, epVars, sessVars, mgrVars, roomVars, playVars,
                sinkVars, msgVars>>

\* return v, from the body or from one of the handlers of lines 95-103.
TReturn(v) ==
    /\ t_pc' = "returned"
    /\ t_ret' = v

\* synthesize(text) is called (line 42).
TCall ==
    /\ t_pc \in {"idle", "returned"}
    /\ t_call < MaxCalls
    /\ t_call' = t_call + 1
    /\ t_pc' = "import"
    /\ t_made' = {}
    /\ t_ret' = Pending
    /\ wav_bytes' = 0
    /\ UNCHANGED disk
    /\ TtsFrame

\* import edge_tts, from pydub import AudioSegment (lines 45-47); a missing
\* library is the ImportError of lines 95-98.
TImport(ok) ==
    /\ t_pc = "import"
    /\ IF ok THEN t_pc' = "mktemp" /\ UNCHANGED t_ret ELSE TReturn(None)
    /\ UNCHANGED <<t_call, disk, wav_bytes, t_made>>
    /\ TtsFrame

\* The mp3 file is created, empty, and kept (lines 52-54); a temporary
\* directory that cannot be written raises into line 99.
TMkTemp(ok) ==
    /\ t_pc = "mktemp"
    /\ IF ok
       THEN /\ disk' = disk \cup {Mp3Path(t_call)}
            /\ t_made' = t_made \cup {Mp3Path(t_call)}
            /\ t_pc' = "synth"
            /\ UNCHANGED t_ret
       ELSE /\ TReturn(None)
            /\ UNCHANGED <<disk, t_made>>
    /\ UNCHANGED <<t_call, wav_bytes>>
    /\ TtsFrame

\* loop.run_until_complete(do_synthesis()) (lines 57-68): the service
\* writes the mp3, or the call raises into the handler of lines 99-103.
TSynthesis(ok) ==
    /\ t_pc = "synth"
    /\ IF ok THEN t_pc' = "decode" /\ UNCHANGED t_ret ELSE TReturn(None)
    /\ UNCHANGED <<t_call, disk, wav_bytes, t_made>>
    /\ TtsFrame

\* AudioSegment.from_mp3 and set_frame_rate (lines 71-72).
TDecode(ok) ==
    /\ t_pc = "decode"
    /\ IF ok THEN t_pc' = "export" /\ UNCHANGED t_ret ELSE TReturn(None)
    /\ UNCHANGED <<t_call, disk, wav_bytes, t_made>>
    /\ TtsFrame

\* What audio.export(wav_path, format="wav") can come to (line 73): the
\* file written, a file of no bytes, no file, or an error before or after
\* the file was opened for writing.
ExportOutcomes == {"written", "empty", "absent", "raised", "raised_open"}

TExport(o) ==
    /\ t_pc = "export"
    /\ IF o \in {"absent", "raised"}
       THEN UNCHANGED <<disk, t_made, wav_bytes>>
       ELSE /\ disk' = disk \cup {WavPath(t_call)}
            /\ t_made' = t_made \cup {WavPath(t_call)}
            /\ wav_bytes' = IF o = "written" THEN 1 ELSE 0
    /\ IF o \in {"raised", "raised_open"}
       THEN TReturn(None)
       ELSE t_pc' = "rm_mp3" /\ UNCHANGED t_ret
    /\ UNCHANGED t_call
    /\ TtsFrame

\* try: os.remove(mp3_path) except: pass (lines 76-79).
TRemoveMp3(ok) ==
    /\ t_pc = "rm_mp3"
    /\ disk' = IF ok THEN disk \ {Mp3Path(t_call)} ELSE disk
    /\ t_pc' = "verify"
    /\ UNCHANGED <<t_call, wav_bytes, t_made, t_ret>>
    /\ TtsFrame

\* The tests of the output (lines 82-93): no file, None; an empty file is
\* removed, None, and an os.remove that raises goes to line 99, None as
\* well; otherwise the path of the wav.
TVerify(rm_ok) ==
    /\ t_pc = "verify"
    /\ IF WavPath(t_call) \notin disk
       THEN TReturn(None) /\ UNCHANGED disk
       ELSE IF wav_bytes = 0
       THEN /\ TReturn(None)
            /\ disk' = IF rm_ok THEN disk \ {WavPath(t_call)} ELSE disk
       ELSE TReturn(WavPath(t_call)) /\ UNCHANGED disk
    /\ UNCHANGED <<t_call, wav_bytes, t_made>>
    /\ TtsFrame

\* The caller removes the file it was given (line 35, and
\* voice_handler.py:348 after the playback).
TCallerRemoves ==
    /\ t_pc = "returned"
    /\ t_ret \notin {None, Pending}
    /\ disk' = disk \ {t_ret}
    /\ t_pc' = "idle"
    /\ UNCHANGED <<t_call, wav_bytes, t_made, t_ret>>
    /\ TtsFrame

NextTts ==
    \/ TCall
    \/ \E ok \in BOOLEAN : TImport(ok)
    \/ \E ok \in BOOLEAN : TMkTemp(ok)
    \/ \E ok \in BOOLEAN : TSynthesis(ok)
    \/ \E ok \in BOOLEAN : TDecode(ok)
    \/ \E o \in ExportOutcomes : TExport(o)
    \/ \E ok \in BOOLEAN : TRemoveMp3(ok)
    \/ \E ok \in BOOLEAN : TVerify(ok)
    \/ TCallerRemoves

\* C39: synthesize leaves no temporary file behind when it fails: when it
\* has returned None, none of the files this call created (the mp3, the
\* wav) is left, and when it has returned a path, that wav is the only one
\* of them left.
C39_NoTempFileLeft ==
    t_pc = "returned"
        => (t_made \cap disk) = (IF t_ret = None THEN {} ELSE {t_ret})

(***************************************************************************)
(*                        MerithBot.on_message                             *)
(***************************************************************************)

\* Longest message content explored, in tokens.
MaxContent == 2

\* The text channels of the guild.
Channels == {"c1", "c2"}

\* The users a message can mention or reply to: the bot itself
\* (self.bot.user) and somebody else.
Users == {"bot", "other"}

\* <@id>, the text of a mention of user u (mention.mention, line 97).
MentionOf(u) == IF u = "bot" THEN "<@bot>" ELSE "<@other>"

\* What a content is made of: a word, a blank, a mention.
Tokens == {"hi", " "} \cup {MentionOf(u) : u \in Users}

Contents == UNION {[1..n -> Tokens] : n \in 0..MaxContent}

\* message.reference and the message it leads to: none, a message of the
\* bot, a message of somebody else, a message that cannot be fetched.
References == {"none", "bot_msg", "other_msg", "deleted"}

\* The messages the gateway can deliver: ping is whether a reply mentions
\* the author of the message it replies to.
Messages ==
    [author_bot : BOOLEAN, channel : Channels, content : Contents,
     reference : References, ping : BOOLEAN]

\* message.mentions: the users whose mention is in the content and, for a
\* reply that pings, the author of the message replied to.
Mentions(m) ==
    {u \in Users : MentionOf(u) \in Range(m.content)}
        \cup (IF m.ping /\ m.reference = "bot_msg" THEN {"bot"}
              ELSE IF m.ping /\ m.reference = "other_msg" THEN {"other"}
              ELSE {})

\* Lines 95-98: the text of every user of message.mentions is taken out of
\* the content (str.replace), and the result is stripped (str.strip).
Clean(m) ==
    Strip(SelectSeq(m.content,
                    LAMBDA t : \A u \in Mentions(m) : t # MentionOf(u)))

\* A handler that answers in every channel.
InWhitelistAll(c, w) == TRUE

\* message.channel.id not in self.whitelist_channels (line 83).
InWhitelist(c, w) == c \in w

\* No message yet.
NoMsg ==
    [author_bot |-> FALSE, channel |-> "c1", content |-> <<>>,
     reference |-> "none", ping |-> FALSE]

\* The handler at rest, with an empty whitelist.
RestMsg ==
    /\ whitelist_channels = {}
    /\ m_pc = "idle"
    /\ m_msg = NoMsg
    /\ m_calls = {}
    /\ m_replies = {}

\* The cog is constructed with the whitelist of the configuration
\* (lines 46-47).
InitMsg ==
    /\ whitelist_channels \in SUBSET Channels
    /\ m_pc = "idle"
    /\ m_msg = NoMsg
    /\ m_calls = {}
    /\ m_replies = {}

MsgFrame ==
    UNCHANGED <<llmVars, epVars, sessVars, mgrVars, roomVars, playVars,
                sinkVars, ttsVars>>

\* return (lines 79, 85, 92, 101), or the end of the handler.
MDone ==
    m_pc' = "done"

\* Lines 91-104, with is_reply what line 89 came to: neither a mention nor
\* a reply, return; no text left, return; otherwise typing() is entered.
MGate(m, is_reply) ==
    IF ~("bot" \in Mentions(m) \/ is_reply)
    THEN MDone
    ELSE IF Clean(m) = <<>>
    THEN MDone
    ELSE m_pc' = "typing"

\* on_message(message) is called (lines 75-89): a bot's message and a
\* channel outside the whitelist are dropped; a message with a reference
\* goes to fetch the message it replies to.
MReceive(m) ==
    /\ m_pc = "idle"
    /\ m_msg' = m
    /\ UNCHANGED <<m_calls, m_replies>>
    /\ IF m.author_bot
       THEN MDone
       ELSE IF ~InWhitelist(m.channel, whitelist_channels)
       THEN MDone
       ELSE IF m.reference # "none"
       THEN m_pc' = "fetch"
       ELSE MGate(m, FALSE)
    /\ UNCHANGED whitelist_channels
    /\ MsgFrame

\* _is_reply_to_bot (lines 123-131): fetch_message returns the message
\* replied to, or raises and the bare except makes it False.
MFetched(ok) ==
    /\ m_pc = "fetch"
    /\ MGate(m_msg, ok /\ m_msg.reference = "bot_msg")
    /\ UNCHANGED <<whitelist_channels, m_msg, m_calls, m_replies>>
    /\ MsgFrame

\* async with message.channel.typing() is entered and
\* generate_response_async is called with the text (lines 104-110); a
\* typing() that raises ends the handler.
MTyping(ok) ==
    /\ m_pc = "typing"
    /\ IF ok
       THEN /\ m_calls' = m_calls \cup {Clean(m_msg)}
            /\ m_pc' = "llm"
       ELSE /\ MDone
            /\ UNCHANGED m_calls
    /\ UNCHANGED <<whitelist_channels, m_msg, m_replies>>
    /\ MsgFrame

\* What generate_response_async can come to: a text, a text that starts
\* with "[", nothing, an exception.
ChatOutcomes == {"text", "sentinel", "empty", "raise"}

\* The model call returns r and the reply is sent (lines 113-121); sent is
\* whether message.reply returned: if it raised, the handler of line 119
\* replies once more.
MLlmReturn(r, sent) ==
    /\ m_pc = "llm"
    /\ m_replies' = m_replies
          \cup (IF r = "raise" THEN {}
                ELSE IF r = "text" THEN {"answer"} ELSE {"sorry"})
          \cup (IF r = "raise" \/ ~sent THEN {"error"} ELSE {})
    /\ MDone
    /\ UNCHANGED <<whitelist_channels, m_msg, m_calls>>
    /\ MsgFrame

\* The handler has returned; the gateway has the next message.
MNextMessage ==
    /\ m_pc = "done"
    /\ m_pc' = "idle"
    /\ m_msg' = NoMsg
    /\ m_calls' = {}
    /\ m_replies' = {}
    /\ UNCHANGED whitelist_channels
    /\ MsgFrame

NextMsg ==
    \/ \E m \in Messages : MReceive(m)
    \/ MNextMessage
    \/ \E ok \in BOOLEAN : MFetched(ok)
    \/ \E ok \in BOOLEAN : MTyping(ok)
    \/ \E r \in ChatOutcomes, sent \in BOOLEAN : MLlmReturn(r, sent)

\* C40: on_message calls the language model only for a message whose
\* author is not a bot, whose channel is in the whitelist, that mentions
\* the bot or replies to a message of the bot, and whose text is not empty
\* once the mentions are taken out, and it calls it with that text; for
\* every other message there is no model call and no reply, a reply being
\* sent only to a message the model was called for.
C40_CallsOnlyWhenAddressed ==
    /\ m_calls # {}
         => /\ ~m_msg.author_bot
            /\ m_msg.channel \in whitelist_channels
            /\ \/ MentionOf("bot") \in Range(m_msg.content)
               \/ m_msg.reference = "bot_msg"
            /\ \E i \in 1..Len(m_msg.content) : m_msg.content[i] = "hi"
            /\ m_calls = {Clean(m_msg)}
            /\ \A t \in m_calls :
                  /\ t # <<>>
                  /\ \A u \in Users : MentionOf(u) \notin Range(t)
    /\ m_replies # {} => m_calls # {}

\* The model was called, and a reply sent, for a message that does not
\* name the bot in its content and is a reply to a message of the bot,
\* with the mention of another user taken out of its text.
C40_Witness ==
    /\ m_pc = "done"
    /\ m_calls = {<<"hi">>}
    /\ m_replies = {"answer"}
    /\ m_msg.reference = "bot_msg"
    /\ ~m_msg.ping
    /\ MentionOf("other") \in Range(m_msg.content)

\* The small machines at rest.
InitAux == InitSink /\ InitTts /\ RestMsg

\* The machines the small ones leave at rest.
InitMain ==
    RestLLM /\ RestEp /\ RestSess /\ InitMgr /\ InitRooms /\ InitPlay

\* ---- specifications

\* Each machine runs from its initial state while the others rest.

InitSpecLLM ==
    InitLLM /\ RestEp /\ RestSess /\ InitMgr /\ InitRooms /\ InitPlay /\ InitAux

SpecLLM ==
    InitSpecLLM /\ [][NextLLM]_vars

InitSpecEndpoint ==
    InitEp /\ RestLLM /\ RestSess /\ InitMgr /\ InitRooms /\ InitPlay /\ InitAux

SpecEndpoint ==
    InitSpecEndpoint /\ [][NextEp]_vars

InitSpec ==
    InitSess /\ RestLLM /\ RestEp /\ InitMgr /\ InitRooms /\ InitPlay /\ InitAux

Spec ==
    InitSpec /\ [][NextSess]_vars

InitSpecMgr ==
    InitMgr /\ RestLLM /\ RestEp /\ RestSess /\ InitRooms /\ InitPlay /\ InitAux

SpecEndpointStall ==
    InitSpecEndpoint /\ [][NextEpStall]_vars

InitSpecRooms ==
    InitRooms /\ RestLLM /\ RestEp /\ RestSess /\ InitMgr /\ InitPlay /\ InitAux

SpecRooms ==
    InitSpecRooms /\ [][NextRooms]_vars

InitSpecPlay ==
    InitPlay /\ RestLLM /\ RestEp /\ RestSess /\ InitMgr /\ InitRooms /\ InitAux

SpecPlay ==
    InitSpecPlay /\ [][NextPlay]_vars

SpecMgr ==
    InitSpecMgr /\ [][NextMgr]_vars

InitSpecSink ==
    InitSink /\ InitMain /\ InitTts /\ RestMsg

SpecSink ==
    InitSpecSink /\ [][NextSink]_vars

InitSpecTts ==
    InitTts /\ InitMain /\ InitSink /\ RestMsg

SpecTts ==
    InitSpecTts /\ [][NextTts]_vars

InitSpecMsg ==
    InitMsg /\ InitMain /\ InitSink /\ InitTts

SpecMsg ==
    InitSpecMsg /\ [][NextMsg]_vars

====
